---------------------------- MODULE Spec2Model ----------------------------
(***************************************************************************)
(* A model of the Freight expression-tree execution engine:                *)
(* ExecutionEngine (call, evaluate, globals, return targets, the function  *)
(* table), StackPool, ArgCount, StackLayout, Function::call and the        *)
(* OrReturn helper.  The host's Value type is modelled as the trait        *)
(* documents it: a value is either a plain owner or a handle to a shared   *)
(* reference cell.                                                         *)
(***************************************************************************)
EXTENDS Integers, Sequences, FiniteSets, TLC

VARIABLES engine, last, refs

vars == <<engine, last, refs>>

(***************************************************************************)
(* Bounds of the model.                                                    *)
(***************************************************************************)
\* top-level calls are only started while the stack pool's base is at most this
MaxBase == 2
\* the host creates at most this many globals
MaxGlobals == 2
\* the host creates at most this many return targets
MaxTargets == 3
\* the host's numbers are kept in 0..NumMod-1 by its operators
NumMod == 4
\* the host passes at most this many arguments when it probes an arity
MaxArgs == 3

(***************************************************************************)
(* Program constants.                                                      *)
(***************************************************************************)
\* StackPool::default: with_capacity(10000)
StackCapacity == 10000
\* StackLayout(u128): the number of layout bits
LayoutBits == 128

(***************************************************************************)
(* Small helpers.                                                          *)
(***************************************************************************)
Min2(a, b) == IF a <= b THEN a ELSE b

\* usize::MAX.  The integers of the checker end at 2^31 - 1, which stands for it.
UsizeMax == (2^30 - 1) * 2 + 1

\* a + b on usize: whether it overflows, and what it gives in a build without
\* overflow checks (a build with them panics)
Overflows(a, b) == a > UsizeMax - b

WrapAdd(a, b) == IF Overflows(a, b) THEN a - (UsizeMax - b) - 1 ELSE a + b

Some(x) == [some |-> TRUE, v |-> x]

None == [some |-> FALSE]

\* Result<Value, FreightError>
Ok(v) == [ok |-> TRUE, v |-> v]

Err(x) == [ok |-> FALSE, err |-> x]

\* FreightError (error.rs)
InvalidInvocationTarget == [err |-> "InvalidInvocationTarget"]

IncorrectArgumentCount(min, max, actual) == [err |-> "IncorrectArgumentCount", expected_min |-> min, expected_max |-> max, actual |-> actual]

Return(t) == [err |-> "Return", target |-> t]

\* a Rust panic: it is not a FreightError and nothing catches it
Panic(msg) == [ok |-> FALSE, err |-> [err |-> "panic", msg |-> msg]]

IsPanic(res) == ~res.ok /\ res.err.err = "panic"

IsReturn(res) == ~res.ok /\ res.err.err = "Return"

\* the pair every evaluating operator returns: a result and the engine after it
R(res, e) == [res |-> res, e |-> e]

(***************************************************************************)
(* The host's Value (value.rs).  Null, Number, Function and List are plain *)
(* payloads; Ref(c) is a handle to the shared cell c of e.heap.            *)
(***************************************************************************)
Null == [k |-> "Null"]

Number(n) == [k |-> "Number", n |-> n]

FunctionValue(f) == [k |-> "Function", f |-> f]

List(items) == [k |-> "List", items |-> items]

Ref(c) == [k |-> "Ref", cell |-> c]

\* Default::default(): the null/unset plain value
Default == Null

\* the payload a value denotes: a handle is read through
Raw(v, heap) == IF v.k = "Ref" THEN heap[v.cell] ELSE v

NewCell(payload, e) == [v |-> Ref(Len(e.heap) + 1), e |-> [e EXCEPT !.heap = Append(@, payload)]]

\* Value::uninitialized_reference: a new reference cell holding null
uninitialized_reference(e) == NewCell(Null, e)

\* Clone::clone: a clone of a handle is a handle to the same cell
clone(v) == v

\* Value::dupe_ref: a second handle to the same cell (a plain value is copied)
dupe_ref(v) == IF v.k = "Ref" THEN Ref(v.cell) ELSE clone(v)

\* into_ref with a fault: a handle is moved into a new cell as well
into_ref_fresh(v, e) == NewCell(Raw(v, e.heap), e)

\* Value::into_ref: a handle stays as it is, a plain value moves into a new cell
into_ref(v, e) == IF v.k = "Ref" THEN [v |-> v, e |-> e] ELSE NewCell(v, e)

\* Value::cast_to_function
cast_to_function(v, heap) == IF Raw(v, heap).k = "Function" THEN Some(Raw(v, heap).f) ELSE None

\* Value::gen_list
gen_list(values) == List(values)

\* Value::assign through a handle: the cell takes the payload of the value
AssignCell(target, value, e) == [e EXCEPT !.heap[target.cell] = Raw(value, e.heap)]

(***************************************************************************)
(* Host operators (operators.rs): Add and Inc over the host's numbers.     *)
(***************************************************************************)
apply_2(op, a, b, heap) == IF op = "Add" /\ Raw(a, heap).k = "Number" /\ Raw(b, heap).k = "Number" THEN Number((Raw(a, heap).n + Raw(b, heap).n) % NumMod) ELSE Null

apply_1(op, a, heap) == IF op = "Inc" /\ Raw(a, heap).k = "Number" THEN Number((Raw(a, heap).n + 1) % NumMod) ELSE Null

\* Initializer::initialize: the host's list constructor
initialize(init, values, e) == List(values)

(***************************************************************************)
(* ArgCount (function/arg_count.rs).                                       *)
(***************************************************************************)
Fixed(n) == [t |-> "Fixed", f |-> n]

Range(min, max) == [t |-> "Range", min |-> min, max |-> max]

Variadic(min, max) == [t |-> "Variadic", min |-> min, max |-> max]

ArgCount_min(a) == IF a.t = "Fixed" THEN a.f ELSE a.min

\* ArgCount::max with a fault: a variadic arity reports its fixed part as its maximum
ArgCount_max_capped(a) == Some(IF a.t = "Fixed" THEN a.f ELSE a.max)

ArgCount_max(a) == CASE a.t = "Range" -> Some(a.max) [] a.t = "Fixed" -> Some(a.f) [] a.t = "Variadic" -> None

max_capped(a) == IF a.t = "Fixed" THEN a.f ELSE a.max

valid_arg_count(a, val) == CASE a.t = "Range" -> val >= a.min /\ val <= a.max [] a.t = "Fixed" -> val = a.f [] a.t = "Variadic" -> val >= a.min

ArgCount_stack_size(a) == CASE a.t = "Fixed" -> a.f [] a.t = "Range" -> a.max [] a.t = "Variadic" -> WrapAdd(a.max, 1)

(***************************************************************************)
(* StackLayout (function/function_ref.rs): a 128-bit mask, kept as the     *)
(* value of every bit (all) and the set of bits that differ from it.       *)
(***************************************************************************)
all_alloc == [all |-> TRUE, except |-> {}]

no_alloc == [all |-> FALSE, except |-> {}]

is_alloc(layout, slot) == layout.all # ((slot % LayoutBits) \in layout.except)

(***************************************************************************)
(* VariableType and Expression (the tree the evaluator interprets).        *)
(***************************************************************************)
Stack(addr) == [t |-> "Stack", addr |-> addr]

Captured(addr) == [t |-> "Captured", addr |-> addr]

Global(addr) == [t |-> "Global", addr |-> addr]

RawValue(v) == [op |-> "RawValue", v |-> v]

Variable(var) == [op |-> "Variable", var |-> var]

BinaryOpEval(bop, l, r) == [op |-> "BinaryOpEval", bop |-> bop, operands |-> <<l, r>>]

UnaryOpEval(uop, v) == [op |-> "UnaryOpEval", uop |-> uop, v |-> v]

StaticFunctionCall(func, args) == [op |-> "StaticFunctionCall", func |-> func, args |-> args]

DynamicFunctionCall(func, args) == [op |-> "DynamicFunctionCall", func |-> func, args |-> args]

NativeFunctionCall(func, args) == [op |-> "NativeFunctionCall", func |-> func, args |-> args]

FunctionCapture(func) == [op |-> "FunctionCapture", func |-> func]

AssignStack(addr, expr) == [op |-> "AssignStack", addr |-> addr, expr |-> expr]

AssignGlobal(addr, expr) == [op |-> "AssignGlobal", addr |-> addr, expr |-> expr]

AssignDynamic(target, value) == [op |-> "AssignDynamic", args |-> <<target, value>>]

Initialize(init, args) == [op |-> "Initialize", init |-> init, args |-> args]

ReturnTarget(target, expr) == [op |-> "ReturnTarget", target |-> target, expr |-> expr]

ReturnExpr(target, expr) == [op |-> "Return", target |-> target, expr |-> expr]

(***************************************************************************)
(* FunctionType, FunctionRef, FunctionWriter and Function.                 *)
(***************************************************************************)
Static == [t |-> "Static"]

CapturingDef(capture) == [t |-> "CapturingDef", capture |-> capture]

CapturingRef(captures) == [t |-> "CapturingRef", captures |-> captures]

Native(f) == [t |-> "Native", f |-> f]

\* FunctionRef::new_native
new_native(id, func, arg_count) == [arg_count |-> arg_count, location |-> id, stack_size |-> ArgCount_stack_size(arg_count), function_type |-> Native(func), layout |-> no_alloc]

\* FunctionWriter::new
FunctionWriter_new(args) == [args |-> args, variable_count |-> 0, expressions |-> <<>>, function_type |-> Static, layout |-> all_alloc]

\* FunctionWriter::new_capturing
new_capturing(args, capture) == [args |-> args, variable_count |-> 0, expressions |-> <<>>, function_type |-> CapturingDef(capture), layout |-> all_alloc]

\* FunctionWriter::create_variable: the writer after it; the offset returned is CreatedVariable(w)
create_variable(w) == [w EXCEPT !.variable_count = WrapAdd(@, 1)]

CreatedVariable(w) == WrapAdd(ArgCount_stack_size(w.args), w.variable_count)

\* FunctionWriter::evaluate_expression
evaluate_expression(w, expr) == [w EXCEPT !.expressions = Append(@, expr)]

\* FunctionWriter::to_ref
to_ref(w, location) == [arg_count |-> w.args, stack_size |-> WrapAdd(ArgCount_stack_size(w.args), w.variable_count), location |-> location, function_type |-> w.function_type, layout |-> w.layout]

\* FunctionWriter::build
build(w, return_target) == [expressions |-> w.expressions, stack_size |-> WrapAdd(ArgCount_stack_size(w.args), w.variable_count), arg_count |-> w.args, return_target |-> return_target]

(***************************************************************************)
(* StackPool (execution_engine.rs).  e.stack.cells is the part of the Vec  *)
(* written so far; every later element still holds Default.  A slice is    *)
(* the region [off, off + len) that request handed out.                    *)
(***************************************************************************)
with_capacity(capacity) == [len |-> capacity, cells |-> <<>>, base |-> 0]

Slice(off, len) == [off |-> off, len |-> len]

EmptySlice == Slice(0, 0)

CellAt(cells, i) == IF i < Len(cells) THEN cells[i + 1] ELSE Default

SetCellAt(cells, i, v) == IF i < Len(cells) THEN [cells EXCEPT ![i + 1] = v] ELSE cells \o [j \in 1..(i - Len(cells)) |-> Default] \o <<v>>

SliceGet(e, s, i) == CellAt(e.stack.cells, s.off + i)

SliceSet(e, s, i, v) == [e EXCEPT !.stack.cells = SetCellAt(@, s.off + i, v)]

SliceValues(e, s) == [i \in 1..s.len |-> SliceGet(e, s, i - 1)]

\* request with a fault: the base is not advanced
request_fixed(e, capacity) == [slice |-> Slice(e.stack.base, capacity), e |-> e]

\* StackPool::request: overflow panics, else the slice at base and base advanced
StackOverflow(e, capacity) == e.stack.base + capacity >= e.stack.len

request(e, capacity) == [slice |-> Slice(e.stack.base, capacity), e |-> [e EXCEPT !.stack.base = @ + capacity]]

\* StackPool::release
release(e, capacity) == [e EXCEPT !.stack.base = @ - capacity]

\* the trace of the running operation
Log(e, ev) == [e EXCEPT !.log = Append(@, ev)]

\* the trace of a slice: handed out by request, and no longer in use once the call it
\* was requested for has returned (request names the position of the request)
Requested(rq) == [slice |-> rq.slice, e |-> Log(rq.e, [ev |-> "request", slice |-> rq.slice, base |-> rq.e.stack.base])]

Left(r, id) == IF IsPanic(r.res) THEN r ELSE R(r.res, Log(r.e, [ev |-> "leave", request |-> id, base |-> r.e.stack.base]))

(***************************************************************************)
(* OrReturn::or_return (error.rs).                                         *)
(***************************************************************************)
\* or_return with a fault: no Return is caught
or_return_never(res, id, e) == R(res, e)

\* the catch with a fault: the value is read and return_value keeps it
or_return_keep(res, id, e) == IF IsReturn(res) /\ res.err.target = id THEN R(Ok(e.return_value), e) ELSE R(res, e)

\* or_return with a fault: every Return is caught, whatever its target
or_return_any(res, id, e) == IF IsReturn(res) THEN R(Ok(e.return_value), [e EXCEPT !.return_value = Default]) ELSE R(res, e)

or_return(res, id, e) == IF IsReturn(res) /\ res.err.target = id THEN R(Ok(e.return_value), [e EXCEPT !.return_value = Default]) ELSE R(res, e)

(***************************************************************************)
(* Native functions of the host: fn(&mut engine, &mut [Value]).            *)
(***************************************************************************)
RECURSIVE SumRaw(_, _)
SumRaw(values, heap) == IF values = <<>> THEN 0 ELSE (IF Raw(Head(values), heap).k = "Number" THEN Raw(Head(values), heap).n ELSE 0) + SumRaw(Tail(values), heap)

NativeFunction(f, e, slice) == CASE f = "nat_sum" -> R(Ok(Number(SumRaw(SliceValues(e, slice), e.heap) % NumMod)), e) [] f = "nat_len" -> R(Ok(Number(slice.len % NumMod)), e) [] f = "nat_fail" -> R(Err(InvalidInvocationTarget), e)

(***************************************************************************)
(* The argument source of call_internal: the host's iterator of values     *)
(* (call) or the argument expressions evaluated in the caller's frame      *)
(* (StaticFunctionCall, DynamicFunctionCall).                              *)
(***************************************************************************)
ArgValues(vals) == [kind |-> "values", vals |-> vals]

ArgExprs(exprs, stack, captured) == [kind |-> "exprs", exprs |-> exprs, stack |-> stack, captured |-> captured]

RECURSIVE evaluate_internal(_, _, _, _)
RECURSIVE call_internal(_, _, _, _)
RECURSIVE Function_call(_, _, _, _)
RECURSIVE FunctionBody(_, _, _, _, _, _)
RECURSIVE MarshalArgs(_, _, _, _, _, _)
RECURSIVE FillRest(_, _, _, _)
RECURSIVE CollectVargs(_, _, _, _, _)
RECURSIVE CollectVargs_reversed(_, _, _, _, _)
RECURSIVE CollectNativeArgs(_, _, _, _, _, _)
RECURSIVE CollectInitArgs(_, _, _, _, _, _)

\* the args closure of call_internal, called for the i-th time (i from 0)
NextArg(args, i, e) == IF args.kind = "values" THEN R(Ok(args.vals[i + 1]), e) ELSE evaluate_internal(args.exprs[i + 1], args.stack, args.captured, e)

\* the cell a VariableType addresses (None: the index is out of bounds)
Lookup(var, stack, captured, e) == CASE var.t = "Captured" -> IF var.addr < Len(captured) THEN Some(captured[var.addr + 1]) ELSE None [] var.t = "Stack" -> IF var.addr < stack.len THEN Some(SliceGet(e, stack, var.addr)) ELSE None [] var.t = "Global" -> IF var.addr < Len(e.globals) THEN Some(e.globals[var.addr + 1]) ELSE None

\* captures_iter with a fault: the captured values are copies, not handles
CaptureAll_copies(capture, stack, captured, e) == IF \E i \in 1..Len(capture) : ~Lookup(capture[i], stack, captured, e).some THEN None ELSE Some([i \in 1..Len(capture) |-> Raw(Lookup(capture[i], stack, captured, e).v, e.heap)])

\* captures_iter of FunctionCapture (None: one of the sites is out of bounds)
CaptureAll(capture, stack, captured, e) == IF \E i \in 1..Len(capture) : ~Lookup(capture[i], stack, captured, e).some THEN None ELSE Some([i \in 1..Len(capture) |-> dupe_ref(Lookup(capture[i], stack, captured, e).v)])

(***************************************************************************)
(* ExecutionEngine::call_internal (execution_engine.rs 133-190).           *)
(***************************************************************************)
\* lines 149-158: the first max arguments, each made a reference or cloned
MarshalArgs(func, args, stack, arg_num, max, e) ==
  IF arg_num >= max THEN R(Ok(Default), e)
  ELSE LET Store(value) == MarshalArgs(func, args, stack, arg_num + 1, max, SliceSet(value.e, stack, arg_num, value.v))
           Got(a) == IF ~a.res.ok THEN a
                     ELSE Store(IF is_alloc(func.layout, arg_num) THEN into_ref(a.res.v, a.e) ELSE [v |-> clone(a.res.v), e |-> a.e])
       IN Got(NextArg(args, arg_num, e))

\* the fill with a fault: the remaining slots keep what the storage held
FillRest_skip(func, stack, i, e) == e

\* lines 159-165: every remaining slot of the frame
FillRest(func, stack, i, e) ==
  IF i >= stack.len THEN e
  ELSE IF is_alloc(func.layout, i)
       THEN LET u == uninitialized_reference(e) IN FillRest(func, stack, i + 1, SliceSet(u.e, stack, i, u.v))
       ELSE FillRest(func, stack, i + 1, SliceSet(e, stack, i, Default))

\* the variadic tail with a fault: the arguments past the fixed part, last first
CollectVargs_reversed(args, i, arg_count, vargs, e) ==
  IF i >= arg_count THEN R(Ok(gen_list(vargs)), e)
  ELSE LET Got(a) == IF ~a.res.ok THEN a ELSE CollectVargs_reversed(args, i + 1, arg_count, <<a.res.v>> \o vargs, a.e)
       IN Got(NextArg(args, i, e))

\* lines 169-172: the arguments past the fixed part, in order
CollectVargs(args, i, arg_count, vargs, e) ==
  IF i >= arg_count THEN R(Ok(gen_list(vargs)), e)
  ELSE LET Got(a) == IF ~a.res.ok THEN a ELSE CollectVargs(args, i + 1, arg_count, Append(vargs, a.res.v), a.e)
       IN Got(NextArg(args, i, e))

\* dispatch with a fault: a closure is called without its captures
Dispatch_static(func, stack, e) ==
  IF func.function_type.t = "Native"
  THEN LET Released(value) == R(value.res, release(value.e, stack.len))
       IN Released(NativeFunction(func.function_type.f, e, stack))
  ELSE IF func.location >= Len(e.functions) THEN R(Panic("index out of bounds"), e)
  ELSE LET Released(value) == IF IsPanic(value.res) THEN value ELSE R(value.res, release(value.e, stack.len))
       IN Released(IF func.function_type.t = "CapturingDef" THEN R(Err(InvalidInvocationTarget), e) ELSE Function_call(e.functions[func.location + 1], e, stack, <<>>))

\* dispatch with a fault: a CapturingDef is called as a function without captures
Dispatch_template(func, stack, e) ==
  IF func.function_type.t = "Native"
  THEN LET Released(value) == R(value.res, release(value.e, stack.len))
       IN Released(NativeFunction(func.function_type.f, e, stack))
  ELSE IF func.location >= Len(e.functions) THEN R(Panic("index out of bounds"), e)
  ELSE LET Released(value) == IF IsPanic(value.res) THEN value ELSE R(value.res, release(value.e, stack.len))
       IN Released(IF func.function_type.t = "CapturingRef" THEN Function_call(e.functions[func.location + 1], e, stack, func.function_type.captures) ELSE Function_call(e.functions[func.location + 1], e, stack, <<>>))

\* lines 176-189: dispatch on the function type, then release
Dispatch(func, stack, e) ==
  IF func.function_type.t = "Native"
  THEN LET Released(value) == R(value.res, release(value.e, stack.len))
       IN Released(NativeFunction(func.function_type.f, e, stack))
  ELSE IF func.location >= Len(e.functions) THEN R(Panic("index out of bounds"), e)
  ELSE LET function == e.functions[func.location + 1]
           Released(value) == IF IsPanic(value.res) THEN value ELSE R(value.res, release(value.e, stack.len))
       IN Released(CASE func.function_type.t = "CapturingRef" -> Function_call(function, e, stack, func.function_type.captures)
                     [] func.function_type.t = "Static" -> Function_call(function, e, stack, <<>>)
                     [] func.function_type.t = "CapturingDef" -> R(Err(InvalidInvocationTarget), e))

\* lines 147-174: marshalling, once the frame is acquired and the count valid
Marshal(func, args, arg_count, stack, e) ==
  LET max == Min2(max_capped(func.arg_count), arg_count)
      Listed(v) == IF ~v.res.ok THEN v ELSE R(Ok(Default), SliceSet(v.e, stack, max_capped(func.arg_count), v.res.v))
      Filled(filled) == IF func.arg_count.t = "Variadic" THEN Listed(CollectVargs(args, max, arg_count, <<>>, filled)) ELSE R(Ok(Default), filled)
      Marshalled(m) == IF ~m.res.ok THEN m ELSE Filled(FillRest(func, stack, max, Log(m.e, [ev |-> "fill", slice |-> stack, from |-> max, heap |-> Len(m.e.heap), variadic |-> func.arg_count.t = "Variadic", list |-> max_capped(func.arg_count)])))
  IN Marshalled(MarshalArgs(func, args, stack, 0, max, e))

call_internal(func, args, arg_count, e) ==
  IF StackOverflow(e, func.stack_size) THEN R(Panic("Stack overflow"), e)
  ELSE LET Marshalled(rq, m) == IF ~m.res.ok THEN m ELSE Dispatch(func, rq.slice, m.e)
           Acquired(rq) == IF ~valid_arg_count(func.arg_count, arg_count)
                           THEN R(Err(IncorrectArgumentCount(ArgCount_min(func.arg_count), ArgCount_max(func.arg_count), arg_count)), rq.e)
                           ELSE Marshalled(rq, Marshal(func, args, arg_count, rq.slice, rq.e))
       IN Left(Acquired(Requested(request(e, func.stack_size))), Len(e.log) + 1)

(***************************************************************************)
(* Function::call (function/mod.rs 29-87).                                 *)
(***************************************************************************)
\* lines 77-83: if let Err(Return { target }) = the result of a non-final expression:
\* the return the call ends with, or None and the loop goes on
\* the loop of Function::call with a fault: a Return of a non-final expression is dropped
IfLetReturn_never(res, return_target, e) == None

IfLetReturn(res, return_target, e) ==
  IF IsReturn(res)
  THEN Some(IF res.err.target = return_target
            THEN R(Ok(e.return_value), [e EXCEPT !.return_value = Default])
            ELSE R(Err(Return(res.err.target)), e))
  ELSE None

\* lines 76-86: expression i of the body (from 1), act names the activation in the trace
FunctionBody(function, i, act, e, args, captured) ==
  LET n == Len(function.expressions)
      Loop(le, ret) == IF ret.some THEN ret.v ELSE FunctionBody(function, i + 1, act, le, args, captured)
      Traced(r, le) == IF IsPanic(r.res) THEN r
                       ELSE IF i < n THEN Loop(le, IfLetReturn(r.res, function.return_target, le))
                       ELSE or_return(r.res, function.return_target, le)
      Evaluated(r) == Traced(r, Log(r.e, [ev |-> "expr", act |-> act, idx |-> i, n |-> n, rt |-> function.return_target, res |-> r.res]))
  IN Evaluated(evaluate_internal(function.expressions[i], args, captured, e))

Function_call(function, e, args, captured) ==
  IF ArgCount_max(function.arg_count).some /\ ArgCount_max(function.arg_count).v > args.len
  THEN R(Err(IncorrectArgumentCount(ArgCount_min(function.arg_count), ArgCount_max(function.arg_count), args.len)), e)
  ELSE IF function.expressions = <<>> THEN R(Ok(Default), e)
  ELSE LET act == e.acts + 1
           Exit(out) == IF IsPanic(out.res) THEN out
                        ELSE R(out.res, Log(out.e, [ev |-> "exit", act |-> act, rt |-> function.return_target, out |-> out.res, return_value |-> out.e.return_value]))
       IN Exit(FunctionBody(function, 1, act, Log([e EXCEPT !.acts = act], [ev |-> "enter", act |-> act, slice |-> args, slots |-> SliceValues(e, args), frame |-> [i \in 1..args.len |-> Raw(SliceGet(e, args, i - 1), e.heap)]]), args, captured))

(***************************************************************************)
(* ExecutionEngine::evaluate_internal (execution_engine.rs 197-301).       *)
(***************************************************************************)
\* lines 266-268: collected[i] = evaluate(arg)?.clone()
CollectNativeArgs(exprs, i, collected, stack, captured, e) ==
  IF i >= Len(exprs) THEN R(Ok(Default), e)
  ELSE LET a == evaluate_internal(exprs[i + 1], stack, captured, e) IN
       IF ~a.res.ok THEN a ELSE CollectNativeArgs(exprs, i + 1, collected, stack, captured, SliceSet(a.e, collected, i, clone(a.res.v)))

\* lines 286-289: collected.push(evaluate(arg)?)
CollectInitArgs(exprs, i, collected, stack, captured, e) ==
  IF i >= Len(exprs) THEN R(Ok(collected), e)
  ELSE LET a == evaluate_internal(exprs[i + 1], stack, captured, e) IN
       IF ~a.res.ok THEN a ELSE CollectInitArgs(exprs, i + 1, Append(collected, a.res.v), stack, captured, a.e)

EvalVariable(expr, stack, captured, e) ==
  LET c == Lookup(expr.var, stack, captured, e) IN
  IF c.some THEN R(Ok(dupe_ref(c.v)), e) ELSE R(Panic("index out of bounds"), e)

\* BinaryOpEval with a fault: the right operand is evaluated before the left
EvalBinaryOpEval_rl(expr, stack, captured, e) ==
  LET r == evaluate_internal(expr.operands[2], stack, captured, e) IN
  IF ~r.res.ok THEN r
  ELSE LET l == evaluate_internal(expr.operands[1], stack, captured, r.e) IN
       IF ~l.res.ok THEN l ELSE R(Ok(apply_2(expr.bop, l.res.v, r.res.v, l.e.heap)), l.e)

EvalBinaryOpEval(expr, stack, captured, e) ==
  LET l == evaluate_internal(expr.operands[1], stack, captured, e) IN
  IF ~l.res.ok THEN l
  ELSE LET r == evaluate_internal(expr.operands[2], stack, captured, l.e) IN
       IF ~r.res.ok THEN r ELSE R(Ok(apply_2(expr.bop, l.res.v, r.res.v, r.e.heap)), r.e)

EvalUnaryOpEval(expr, stack, captured, e) ==
  LET v == evaluate_internal(expr.v, stack, captured, e) IN
  IF ~v.res.ok THEN v ELSE R(Ok(apply_1(expr.uop, v.res.v, v.e.heap)), v.e)

\* StaticFunctionCall with a fault: the arguments are evaluated against the frame
\* of the callee
EvalStaticFunctionCall_callee(expr, stack, captured, e) ==
  call_internal(expr.func, ArgExprs(expr.args, Slice(e.stack.base, expr.func.stack_size), captured), Len(expr.args), e)

EvalStaticFunctionCall(expr, stack, captured, e) ==
  call_internal(expr.func, ArgExprs(expr.args, stack, captured), Len(expr.args), e)

\* DynamicFunctionCall with a fault: the arguments are evaluated before the target is cast
EvalDynamicFunctionCall_late(expr, stack, captured, e) ==
  LET func == evaluate_internal(expr.func, stack, captured, e) IN
  IF ~func.res.ok THEN func
  ELSE LET f == cast_to_function(func.res.v, func.e.heap)
           Collected(c) == IF ~c.res.ok THEN c ELSE R(Err(InvalidInvocationTarget), c.e)
       IN IF ~f.some THEN Collected(CollectInitArgs(expr.args, 0, <<>>, stack, captured, func.e))
          ELSE call_internal(f.v, ArgExprs(expr.args, stack, captured), Len(expr.args), func.e)

\* DynamicFunctionCall with a fault: the function the target denotes is called
\* without what it captured
EvalDynamicFunctionCall_bare(expr, stack, captured, e) ==
  LET func == evaluate_internal(expr.func, stack, captured, e) IN
  IF ~func.res.ok THEN func
  ELSE LET f == cast_to_function(func.res.v, func.e.heap) IN
       IF ~f.some THEN R(Err(InvalidInvocationTarget), func.e)
       ELSE call_internal(IF f.v.function_type.t = "CapturingRef" THEN [f.v EXCEPT !.function_type = CapturingRef(<<Default>>)] ELSE f.v, ArgExprs(expr.args, stack, captured), Len(expr.args), func.e)

EvalDynamicFunctionCall(expr, stack, captured, e) ==
  LET func == evaluate_internal(expr.func, stack, captured, e) IN
  IF ~func.res.ok THEN func
  ELSE LET f == cast_to_function(func.res.v, func.e.heap) IN
       IF ~f.some THEN R(Err(InvalidInvocationTarget), func.e)
       ELSE call_internal(f.v, ArgExprs(expr.args, stack, captured), Len(expr.args), func.e)

EvalFunctionCapture(expr, stack, captured, e) ==
  IF expr.func.function_type.t # "CapturingDef" THEN R(Err(InvalidInvocationTarget), e)
  ELSE LET captures == CaptureAll(expr.func.function_type.capture, stack, captured, e) IN
       IF ~captures.some THEN R(Panic("index out of bounds"), e)
       ELSE LET func == [expr.func EXCEPT !.function_type = CapturingRef(captures.v)] IN
            R(Ok(FunctionValue(func)), Log(e, [ev |-> "capture", def |-> expr.func, stack |-> SliceValues(e, stack), captured |-> captured, globals |-> e.globals, out |-> FunctionValue(func)]))

\* the record of an assignment in the trace: what was assigned to, and the payload
Assigned(to, addr, val, e) == Log(e, [ev |-> "assign", to |-> to, addr |-> addr, v |-> Raw(val, e.heap)])

\* Value::assign on the cell itself: through the handle it holds, or onto a plain slot
AssignSlot(slot, val, e) == IF slot.k = "Ref" THEN [v |-> slot, e |-> AssignCell(slot, val, e)] ELSE [v |-> Raw(val, e.heap), e |-> e]

EvalAssignStack(expr, stack, captured, e) ==
  LET val == evaluate_internal(expr.expr, stack, captured, e) IN
  IF ~val.res.ok THEN val
  ELSE IF expr.addr >= stack.len THEN R(Panic("index out of bounds"), val.e)
  ELSE LET a == AssignSlot(SliceGet(val.e, stack, expr.addr), val.res.v, val.e) IN
       R(Ok(Default), Assigned("Stack", expr.addr, val.res.v, SliceSet(a.e, stack, expr.addr, a.v)))

EvalNativeFunctionCall(expr, stack, captured, e) ==
  IF StackOverflow(e, Len(expr.args)) THEN R(Panic("Stack overflow"), e)
  ELSE LET rq == Requested(request(e, Len(expr.args)))
           c == CollectNativeArgs(expr.args, 0, rq.slice, stack, captured, rq.e)
       IN IF ~c.res.ok THEN Left(c, Len(e.log) + 1)
          ELSE LET value == NativeFunction(expr.func, c.e, rq.slice)
                   Invoked(v) == R(v.res, Log(v.e, [ev |-> "native", func |-> expr.func, args |-> [i \in 1..rq.slice.len |-> Raw(SliceGet(c.e, rq.slice, i - 1), c.e.heap)], out |-> v.res]))
               IN Left(IF ~value.res.ok THEN Invoked(value) ELSE R(value.res, release(Invoked(value).e, rq.slice.len)), Len(e.log) + 1)

EvalAssignGlobal(expr, stack, captured, e) ==
  LET val == evaluate_internal(expr.expr, stack, captured, e) IN
  IF ~val.res.ok THEN val
  ELSE IF expr.addr >= Len(val.e.globals) THEN R(Panic("index out of bounds"), val.e)
  ELSE LET a == AssignSlot(val.e.globals[expr.addr + 1], val.res.v, val.e) IN
       R(Ok(Default), Assigned("Global", expr.addr, val.res.v, [a.e EXCEPT !.globals[expr.addr + 1] = a.v]))

EvalAssignDynamic(expr, stack, captured, e) ==
  LET target == evaluate_internal(expr.args[1], stack, captured, e) IN
  IF ~target.res.ok THEN target
  ELSE LET value == evaluate_internal(expr.args[2], stack, captured, target.e) IN
       IF ~value.res.ok THEN value
       ELSE R(Ok(Default), Assigned("Dynamic", target.res.v, value.res.v, AssignSlot(dupe_ref(target.res.v), value.res.v, value.e).e))

EvalInitialize(expr, stack, captured, e) ==
  LET c == CollectInitArgs(expr.args, 0, <<>>, stack, captured, e) IN
  IF ~c.res.ok THEN c ELSE R(Ok(initialize(expr.init, c.res.v, c.e)), c.e)

\* the catch with a fault: the signal passes on to the next enclosing catch
EvalReturnTarget_outward(expr, stack, captured, e) == evaluate_internal(expr.expr, stack, captured, e)

EvalReturnTarget(expr, stack, captured, e) ==
  LET inner == evaluate_internal(expr.expr, stack, captured, e)
      out == or_return(inner.res, expr.target, inner.e)
  IN IF IsPanic(inner.res) THEN inner
     ELSE R(out.res, Log(out.e, [ev |-> "ReturnTarget", target |-> expr.target, inner |-> inner.res, out |-> out.res, return_value |-> out.e.return_value]))

EvalReturn(expr, stack, captured, e) ==
  LET v == evaluate_internal(expr.expr, stack, captured, e) IN
  IF ~v.res.ok THEN v
  ELSE R(Err(Return(expr.target)), Log([v.e EXCEPT !.return_value = v.res.v], [ev |-> "raise", target |-> expr.target, v |-> v.res.v]))

evaluate_internal(expr, stack, captured, e) ==
  CASE expr.op = "RawValue" -> R(Ok(clone(expr.v)), e)
    [] expr.op = "Variable" -> EvalVariable(expr, stack, captured, e)
    [] expr.op = "BinaryOpEval" -> EvalBinaryOpEval(expr, stack, captured, e)
    [] expr.op = "UnaryOpEval" -> EvalUnaryOpEval(expr, stack, captured, e)
    [] expr.op = "StaticFunctionCall" -> EvalStaticFunctionCall(expr, stack, captured, e)
    [] expr.op = "DynamicFunctionCall" -> EvalDynamicFunctionCall(expr, stack, captured, e)
    [] expr.op = "FunctionCapture" -> EvalFunctionCapture(expr, stack, captured, e)
    [] expr.op = "AssignStack" -> EvalAssignStack(expr, stack, captured, e)
    [] expr.op = "NativeFunctionCall" -> EvalNativeFunctionCall(expr, stack, captured, e)
    [] expr.op = "AssignGlobal" -> EvalAssignGlobal(expr, stack, captured, e)
    [] expr.op = "AssignDynamic" -> EvalAssignDynamic(expr, stack, captured, e)
    [] expr.op = "Initialize" -> EvalInitialize(expr, stack, captured, e)
    [] expr.op = "ReturnTarget" -> EvalReturnTarget(expr, stack, captured, e)
    [] expr.op = "Return" -> EvalReturn(expr, stack, captured, e)

(***************************************************************************)
(* The cells of the host: a cell lives while a handle to it does (Rc).     *)
(* Between operations the cells no handle of the engine reaches are        *)
(* dropped and the others are numbered in the order the engine's values    *)
(* reach them.  No frame is live between operations, and call_internal     *)
(* writes every slot of a frame (lines 147-174) before the callee reads    *)
(* it, so what the earlier frames left in the pool is forgotten.           *)
(***************************************************************************)
RECURSIVE ReachOrder(_, _, _)
ReachOrder(work, order, heap) ==
  IF work = <<>> THEN order
  ELSE LET v == Head(work)
           rest == Tail(work)
       IN CASE v.k = "Ref" -> IF \E i \in 1..Len(order) : order[i] = v.cell THEN ReachOrder(rest, order, heap) ELSE ReachOrder(<<heap[v.cell]>> \o rest, Append(order, v.cell), heap)
            [] v.k = "Function" -> IF v.f.function_type.t = "CapturingRef" THEN ReachOrder(v.f.function_type.captures \o rest, order, heap) ELSE ReachOrder(rest, order, heap)
            [] v.k = "List" -> ReachOrder(v.items \o rest, order, heap)
            [] OTHER -> ReachOrder(rest, order, heap)

RECURSIVE Rename(_, _)
Rename(v, idx) ==
  CASE v.k = "Ref" -> Ref(idx[v.cell])
    [] v.k = "Function" -> IF v.f.function_type.t = "CapturingRef" THEN FunctionValue([v.f EXCEPT !.function_type = CapturingRef([i \in 1..Len(v.f.function_type.captures) |-> Rename(v.f.function_type.captures[i], idx)])]) ELSE v
    [] v.k = "List" -> List([i \in 1..Len(v.items) |-> Rename(v.items[i], idx)])
    [] OTHER -> v

DropUnreachable(e) ==
  LET order == ReachOrder(e.globals \o <<e.return_value>>, <<>>, e.heap)
      idx == [c \in {order[i] : i \in 1..Len(order)} |-> CHOOSE i \in 1..Len(order) : order[i] = c]
  IN [e EXCEPT !.globals = [i \in 1..Len(e.globals) |-> Rename(e.globals[i], idx)],
               !.return_value = Rename(e.return_value, idx),
               !.stack.cells = <<>>,
               !.heap = [i \in 1..Len(order) |-> Rename(e.heap[order[i]], idx)],
               !.log = <<>>,
               !.acts = 0]

(***************************************************************************)
(* ExecutionEngine: construction and the operations on its tables.         *)
(***************************************************************************)
\* ExecutionEngine::new
ExecutionEngine_new == [num_globals |-> 0, globals |-> <<>>, functions |-> <<>>, next_return_target |-> 0, return_value |-> Default, stack |-> with_capacity(StackCapacity), heap |-> <<>>, log |-> <<>>, acts |-> 0, handed |-> {}]

\* ExecutionEngine::register_function: the engine after it; the reference returned is to_ref(func, Len(e.functions))
\* register_function with a fault: the body is put in front of the table
register_function_front(e, func, return_target) == [e EXCEPT !.functions = <<build(func, return_target)>> \o @]

register_function(e, func, return_target) == [e EXCEPT !.functions = Append(@, build(func, return_target))]

\* line 100: the reference register_function returns
func_ref(e, func) == to_ref(func, Len(e.functions))

\* ExecutionEngine::create_return_target: the engine after it; the id returned is e.next_return_target
create_return_target(e) == [e EXCEPT !.next_return_target = @ + 1]

\* ExecutionEngine::create_global: the engine after it; the address returned is Len(e.globals)
\* (handed is history: the addresses create_global has returned so far)
create_global(e) == LET u == uninitialized_reference(e) IN [u.e EXCEPT !.globals = Append(@, u.v), !.handed = @ \cup {Len(e.globals)}]

\* vec![Value::uninitialized_reference(); n]: n clones of one uninitialized reference
VecOfUninitialized(n, e) == IF n = 0 THEN [v |-> <<>>, e |-> e] ELSE LET u == uninitialized_reference(e) IN [v |-> [i \in 1..n |-> clone(u.v)], e |-> u.e]

\* ExecutionEngine::reset_globals
reset_globals(e) == LET g == VecOfUninitialized(e.num_globals, e) IN [g.e EXCEPT !.globals = g.v]

\* ExecutionEngine::call
call(e, func, args) == call_internal(func, ArgValues(args), Len(args), e)

\* ExecutionEngine::evaluate
evaluate(e, expr) == evaluate_internal(expr, EmptySlice, <<>>, e)

(***************************************************************************)
(* The host's program: the writers it registers, in this order, and the    *)
(* native references it builds.  Return targets: 0 and 1 are raised and    *)
(* caught across function boundaries, 2 is the target of the functions     *)
(* that raise nothing themselves.                                          *)
(***************************************************************************)
\* add(a, b) = a + b
W_add == evaluate_expression(FunctionWriter_new(Fixed(2)), BinaryOpEval("Add", Variable(Stack(0)), Variable(Stack(1))))

F_add == to_ref(W_add, 0)

\* set(x) = { x := 3; x }
W_set == evaluate_expression(evaluate_expression(FunctionWriter_new(Fixed(1)), AssignStack(0, RawValue(Number(3)))), Variable(Stack(0)))

F_set == to_ref(W_set, 1)

\* raise0() = { return-to-0 1 }, raise1() = { return-to-1 2 }: neither is their own target
W_raise0 == evaluate_expression(FunctionWriter_new(Fixed(0)), ReturnExpr(0, RawValue(Number(1))))

F_raise0 == to_ref(W_raise0, 2)

W_raise1 == evaluate_expression(FunctionWriter_new(Fixed(0)), ReturnExpr(1, RawValue(Number(2))))

F_raise1 == to_ref(W_raise1, 3)

\* body(f, g) = { f(); global0 := 1; g() } with return target 0
W_body == evaluate_expression(evaluate_expression(evaluate_expression(FunctionWriter_new(Fixed(2)), DynamicFunctionCall(Variable(Stack(0)), <<>>)), AssignGlobal(0, RawValue(Number(1)))), DynamicFunctionCall(Variable(Stack(1)), <<>>))

F_body == to_ref(W_body, 4)

\* inner = lambda(x). x + n, capturing n = Stack(0) of makeAdder
W_inner == evaluate_expression(new_capturing(Fixed(1), <<Stack(0)>>), BinaryOpEval("Add", Variable(Stack(0)), Variable(Captured(0))))

F_inner == to_ref(W_inner, 5)

\* makeAdder(n) = inner capturing n
W_makeAdder == evaluate_expression(FunctionWriter_new(Fixed(1)), FunctionCapture(F_inner))

F_makeAdder == to_ref(W_makeAdder, 6)

\* get = lambda(). c and put = lambda(x). c := x, both capturing c = Stack(0) of mk
W_get == evaluate_expression(new_capturing(Fixed(0), <<Stack(0)>>), Variable(Captured(0)))

F_get == to_ref(W_get, 7)

W_put == evaluate_expression(new_capturing(Fixed(1), <<Stack(0)>>), AssignDynamic(Variable(Captured(0)), Variable(Stack(0))))

F_put == to_ref(W_put, 8)

\* mk(c) = { global0 := get; global1 := put; c := 2 }
W_mk == evaluate_expression(evaluate_expression(evaluate_expression(FunctionWriter_new(Fixed(1)), AssignGlobal(0, FunctionCapture(F_get))), AssignGlobal(1, FunctionCapture(F_put))), AssignStack(0, RawValue(Number(2))))

F_mk == to_ref(W_mk, 9)

\* opt(a, b?) = { local := b; local } over a Range arity and one local variable
W_opt == evaluate_expression(evaluate_expression(create_variable(FunctionWriter_new(Range(1, 2))), AssignStack(2, Variable(Stack(1)))), Variable(Stack(2)))

F_opt == to_ref(W_opt, 10)

\* rest(a, xs...) = xs over a Variadic arity
W_rest == evaluate_expression(FunctionWriter_new(Variadic(1, 1)), Variable(Stack(1)))

F_rest == to_ref(W_rest, 11)

\* share(c) = { global0 := get; put(3); c }: get and put capture c, put writes it
W_share == evaluate_expression(evaluate_expression(evaluate_expression(FunctionWriter_new(Fixed(1)), AssignGlobal(0, FunctionCapture(F_get))), DynamicFunctionCall(FunctionCapture(F_put), <<RawValue(Number(3))>>)), Variable(Stack(0)))

F_share == to_ref(W_share, 12)

\* early() = { add(return 1, 1) }: its own return target is raised by an argument expression
W_early == evaluate_expression(FunctionWriter_new(Fixed(0)), StaticFunctionCall(F_add, <<ReturnExpr(2, RawValue(Number(1))), RawValue(Number(1))>>))

F_early == to_ref(W_early, 13)

\* leaf = lambda(). m + y, capturing m = Captured(0), y = Stack(0) of mid and global 0
W_leaf == evaluate_expression(new_capturing(Fixed(0), <<Captured(0), Stack(0), Global(0)>>), BinaryOpEval("Add", Variable(Captured(0)), Variable(Captured(1))))

F_leaf == to_ref(W_leaf, 14)

\* mid = lambda(y). leaf, capturing m = Stack(0) of outer
W_mid == evaluate_expression(new_capturing(Fixed(1), <<Stack(0)>>), FunctionCapture(F_leaf))

F_mid == to_ref(W_mid, 15)

\* outer(m) = mid capturing m
W_outer == evaluate_expression(FunctionWriter_new(Fixed(1)), FunctionCapture(F_mid))

F_outer == to_ref(W_outer, 16)

\* gget = lambda(). g, capturing g = global 0: a closure made outside any frame
W_gget == evaluate_expression(new_capturing(Fixed(0), <<Global(0)>>), Variable(Captured(0)))

F_gget == to_ref(W_gget, 17)

\* reuse() = { mk(1); set(1); global0() }: the frame of mk is released and its storage
\* taken by the frame of set before the closure mk left in global 0 is called
W_reuse == evaluate_expression(evaluate_expression(evaluate_expression(FunctionWriter_new(Fixed(0)), StaticFunctionCall(F_mk, <<RawValue(Number(1))>>)), StaticFunctionCall(F_set, <<RawValue(Number(1))>>)), DynamicFunctionCall(Variable(Global(0)), <<>>))

F_reuse == to_ref(W_reuse, 18)

\* pack(a, b?, xs...) = { local := xs; local } over a Variadic arity with an optional
\* fixed argument and one local variable
W_pack == evaluate_expression(evaluate_expression(create_variable(FunctionWriter_new(Variadic(1, 2))), AssignStack(3, Variable(Stack(2)))), Variable(Stack(3)))

F_pack == to_ref(W_pack, 19)

\* over() = { add(early(), 1) }: early raises the return target it shares with over
W_over == evaluate_expression(FunctionWriter_new(Fixed(0)), StaticFunctionCall(F_add, <<StaticFunctionCall(F_early, <<>>), RawValue(Number(1))>>))

F_over == to_ref(W_over, 20)

\* pass(a) = { add(2, a) }: the second argument of the call is the caller's slot 0,
\* evaluated after slot 0 of add's frame was filled with 2
W_pass == evaluate_expression(FunctionWriter_new(Fixed(1)), StaticFunctionCall(F_add, <<RawValue(Number(2)), Variable(Stack(0))>>))

F_pass == to_ref(W_pass, 21)

Program == <<[w |-> W_add, rt |-> 2], [w |-> W_set, rt |-> 2], [w |-> W_raise0, rt |-> 2], [w |-> W_raise1, rt |-> 2], [w |-> W_body, rt |-> 0], [w |-> W_inner, rt |-> 2], [w |-> W_makeAdder, rt |-> 2], [w |-> W_get, rt |-> 2], [w |-> W_put, rt |-> 2], [w |-> W_mk, rt |-> 2], [w |-> W_opt, rt |-> 2], [w |-> W_rest, rt |-> 2], [w |-> W_share, rt |-> 2], [w |-> W_early, rt |-> 2], [w |-> W_leaf, rt |-> 2], [w |-> W_mid, rt |-> 2], [w |-> W_outer, rt |-> 2], [w |-> W_gget, rt |-> 2], [w |-> W_reuse, rt |-> 2], [w |-> W_pack, rt |-> 2], [w |-> W_over, rt |-> 2], [w |-> W_pass, rt |-> 2]>>

N_sum == new_native(0, "nat_sum", Fixed(2))

N_len == new_native(1, "nat_len", Fixed(0))

N_fail == new_native(2, "nat_fail", Fixed(0))

NativeRefs == {N_sum, N_len, N_fail}

(***************************************************************************)
(* What the host passes.                                                   *)
(***************************************************************************)
SeqRange(q) == {q[i] : i \in 1..Len(q)}

\* the function values stored in the globals, which the host reads and calls
GlobalFunctions(e) == {Raw(e.globals[i], e.heap).f : i \in {j \in 1..Len(e.globals) : Raw(e.globals[j], e.heap).k = "Function"}}

\* handles to the cells of the globals the program uses (evaluate(Variable(Global(a))))
GlobalHandles(e) == {dupe_ref(e.globals[a + 1]) : a \in {a \in {0, 1} : a < Len(e.globals)}}

Callables(e, rs) == SeqRange(rs) \cup NativeRefs \cup GlobalFunctions(e)

\* what body(f, g) is given to call: not callable, raising 0, raising 1, wrong arity, succeeding
Callees == {Number(1), FunctionValue(F_raise0), FunctionValue(F_raise1), FunctionValue(F_add), FunctionValue(N_len), FunctionValue(N_fail)}

CallChoices(e, rs) ==
  {[func |-> f, args |-> [i \in 1..k |-> Number(1)]] : f \in Callables(e, rs), k \in 0..MaxArgs}
  \cup {[func |-> f, args |-> <<Number(1), Number(2)>>] : f \in {F_add, N_sum} \cap Callables(e, rs)}
  \cup {[func |-> f, args |-> <<h>>] : f \in {F_set, F_mk} \cap Callables(e, rs), h \in GlobalHandles(e)}
  \cup {[func |-> f, args |-> <<x, y>>] : f \in {F_body} \cap Callables(e, rs), x \in Callees, y \in Callees}
  \cup {[func |-> f, args |-> [i \in 1..k |-> Number(i % NumMod)]] : f \in {F_rest, F_pack} \cap Callables(e, rs), k \in 0..MaxArgs}

\* one-hole contexts an expression can sit in: operator operands, call targets and
\* arguments, assignment sides, initializer and native arguments, a catch of another target
Context(c, hole) ==
  CASE c = 1 -> hole
    [] c = 2 -> BinaryOpEval("Add", hole, RawValue(Number(1)))
    [] c = 3 -> BinaryOpEval("Add", RawValue(Number(1)), hole)
    [] c = 4 -> UnaryOpEval("Inc", hole)
    [] c = 5 -> StaticFunctionCall(F_add, <<hole, RawValue(Number(1))>>)
    [] c = 6 -> StaticFunctionCall(F_add, <<RawValue(Number(1)), hole>>)
    [] c = 7 -> DynamicFunctionCall(hole, <<>>)
    [] c = 8 -> DynamicFunctionCall(RawValue(FunctionValue(F_add)), <<hole, RawValue(Number(1))>>)
    [] c = 9 -> AssignGlobal(0, hole)
    [] c = 10 -> AssignDynamic(hole, RawValue(Number(1)))
    [] c = 11 -> AssignDynamic(RawValue(Number(1)), hole)
    [] c = 12 -> Initialize("list", <<RawValue(Number(1)), hole>>)
    [] c = 13 -> NativeFunctionCall("nat_sum", <<hole, RawValue(Number(1))>>)
    [] c = 14 -> AssignStack(0, hole)
    [] c = 15 -> ReturnTarget(2, hole)

Contexts == 1..15

\* what sits in the hole: a Return to 0 or to 1 (of a value, of a computed value), a call
\* of a function that raises one, a value, a call that fails
Leaves == {ReturnExpr(0, RawValue(Number(1))), ReturnExpr(1, RawValue(Number(2))), ReturnExpr(0, BinaryOpEval("Add", RawValue(Number(1)), Variable(Global(0)))), StaticFunctionCall(F_raise0, <<>>), RawValue(Number(3)), DynamicFunctionCall(RawValue(Number(1)), <<>>)}

\* k literal arguments
Literals(k) == [i \in 1..k |-> RawValue(Number(1))]

\* static and dynamic calls with every argument count, over the three kinds of arity
\* and a CapturingDef
Arities == {F_add, F_opt, F_rest, N_sum, F_inner}

CallExpressions == {StaticFunctionCall(f, Literals(k)) : f \in Arities, k \in 0..MaxArgs} \cup {DynamicFunctionCall(RawValue(FunctionValue(f)), Literals(k)) : f \in Arities, k \in 0..MaxArgs}

\* the contexts a second context is nested in
DeepContexts == {3, 6, 8, 12, 13}

\* expressions with two effects whose order shows: set(global0) leaves 3 in global 0,
\* an assignment leaves its number there; a call through global 1 whose argument
\* overwrites global 1
SetGlobal == StaticFunctionCall(F_set, <<Variable(Global(0))>>)

OrderExpressions ==
  {BinaryOpEval("Add", SetGlobal, AssignGlobal(0, RawValue(Number(1)))),
   BinaryOpEval("Add", AssignGlobal(0, RawValue(Number(1))), SetGlobal),
   BinaryOpEval("Add", AssignGlobal(0, RawValue(Number(1))), AssignGlobal(0, RawValue(Number(2)))),
   StaticFunctionCall(F_add, <<SetGlobal, AssignGlobal(0, RawValue(Number(1)))>>),
   StaticFunctionCall(F_add, <<AssignGlobal(0, RawValue(Number(1))), SetGlobal>>),
   DynamicFunctionCall(Variable(Global(1)), <<AssignGlobal(1, RawValue(Number(1)))>>),
   DynamicFunctionCall(RawValue(FunctionValue(F_add)), <<AssignGlobal(0, RawValue(Number(1))), SetGlobal>>),
   AssignDynamic(SetGlobal, AssignGlobal(0, RawValue(Number(1)))),
   AssignDynamic(Variable(Global(0)), SetGlobal)}

\* add stored in global 0 and called through it; the call of what global 0 holds
ThroughGlobal == {AssignGlobal(0, RawValue(FunctionValue(F_add))), DynamicFunctionCall(Variable(Global(0)), <<RawValue(Number(1)), RawValue(Number(2))>>), DynamicFunctionCall(Variable(Global(0)), <<>>)}

\* calls whose frame takes the storage an earlier call of the same evaluation wrote:
\* add(1, 2) then opt(1), opt(1, 2) then opt(1), and opt(opt(1, 2))
ReuseExpressions ==
  {BinaryOpEval("Add", StaticFunctionCall(F_add, <<RawValue(Number(1)), RawValue(Number(2))>>), StaticFunctionCall(F_opt, <<RawValue(Number(1))>>)),
   BinaryOpEval("Add", StaticFunctionCall(F_opt, <<RawValue(Number(1)), RawValue(Number(2))>>), StaticFunctionCall(F_opt, <<RawValue(Number(1))>>)),
   StaticFunctionCall(F_opt, <<StaticFunctionCall(F_opt, <<RawValue(Number(1)), RawValue(Number(2))>>)>>)}

\* a catch of target 0 inside a catch of target 0: the Return is raised in place, and
\* by a function that is not its own target
NestedTargets ==
  {ReturnTarget(0, BinaryOpEval("Add", ReturnTarget(0, ReturnExpr(0, RawValue(Number(1)))), RawValue(Number(2)))),
   ReturnTarget(0, BinaryOpEval("Add", ReturnTarget(0, StaticFunctionCall(F_raise0, <<>>)), RawValue(Number(2))))}

\* k argument expressions with effects: an assignment of global 0, a Return, a call
\* that assigns
Effects(k) == SubSeq(<<AssignGlobal(0, RawValue(Number(1))), ReturnExpr(0, RawValue(Number(1))), SetGlobal>>, 1, k)

\* static and dynamic calls of them with an argument count the arity rejects
Rejected(f) == {k \in 0..MaxArgs : ~valid_arg_count(f.arg_count, k)}

MiscountedCalls == UNION {{StaticFunctionCall(f, Effects(k)) : k \in Rejected(f)} \cup {DynamicFunctionCall(RawValue(FunctionValue(f)), Effects(k)) : k \in Rejected(f)} : f \in Arities}

HostExpressions ==
  OrderExpressions \cup ReuseExpressions \cup NestedTargets \cup MiscountedCalls \cup
  {Context(c, l) : c \in Contexts, l \in Leaves}
  \cup {ReturnTarget(t, Context(c, l)) : t \in {0, 1}, c \in Contexts, l \in Leaves}
  \cup {ReturnTarget(0, Context(c, Context(d, ReturnExpr(0, RawValue(Number(1)))))) : c \in DeepContexts, d \in Contexts}
  \cup CallExpressions
  \cup {FunctionCapture(F_gget), FunctionCapture(F_add)}
  \cup ThroughGlobal

(***************************************************************************)
(* The state machine: the host drives one engine.  last is the operation   *)
(* that has just returned, with what it returned; the host drops the       *)
(* result before it starts the next operation, or calls the function it    *)
(* was handed.  A panic ends the run.                                      *)
(***************************************************************************)
Idle == last.op = "none"

Init == engine = ExecutionEngine_new /\ last = [op |-> "none"] /\ refs = <<>>

RegisterFunction ==
  /\ Idle
  /\ Len(engine.functions) < Len(Program)
  /\ Len(engine.globals) = MaxGlobals
  /\ LET i == Len(engine.functions) + 1 IN
       /\ engine' = register_function(engine, Program[i].w, Program[i].rt)
       /\ refs' = Append(refs, func_ref(engine, Program[i].w))
       /\ last' = [op |-> "register_function", ref |-> func_ref(engine, Program[i].w)]

CreateReturnTarget ==
  /\ Idle
  /\ engine.next_return_target < MaxTargets
  /\ engine' = create_return_target(engine)
  /\ last' = [op |-> "create_return_target", id |-> engine.next_return_target]
  /\ UNCHANGED refs

CreateGlobal ==
  /\ Idle
  /\ Len(engine.globals) < MaxGlobals
  /\ engine.next_return_target = MaxTargets
  /\ engine.functions = <<>>
  /\ engine' = create_global(engine)
  /\ last' = [op |-> "create_global", addr |-> Len(engine.globals)]
  /\ UNCHANGED refs

ResetGlobals ==
  /\ Idle
  /\ Len(engine.functions) \in {0, Len(Program)}
  /\ engine' = reset_globals(engine)
  /\ last' = [op |-> "reset_globals"]
  /\ UNCHANGED refs

Call ==
  /\ Idle
  /\ Len(engine.functions) = Len(Program)
  /\ engine.stack.base <= MaxBase
  /\ \E c \in CallChoices(engine, refs) :
       \E r \in {call(engine, c.func, c.args)} :
         /\ engine' = r.e
         /\ last' = [op |-> "call", func |-> c.func, args |-> c.args, res |-> r.res]
  /\ UNCHANGED refs

\* the host calls the function value the last operation returned
CallReturned ==
  /\ last.op \in {"call", "evaluate"}
  /\ last.res.ok
  /\ cast_to_function(last.res.v, engine.heap).some
  /\ engine.stack.base <= MaxBase
  /\ \E k \in 0..MaxArgs :
       LET f == cast_to_function(last.res.v, engine.heap).v
           args == [i \in 1..k |-> Number(1)]
       IN \E r \in {call([engine EXCEPT !.log = <<>>, !.acts = 0], f, args)} :
            /\ engine' = r.e
            /\ last' = [op |-> "call", func |-> f, args |-> args, res |-> r.res]
  /\ UNCHANGED refs

Evaluate ==
  /\ Idle
  /\ engine.stack.base <= MaxBase
  /\ Len(engine.functions) = Len(Program)
  /\ \E expr \in HostExpressions :
       \E r \in {evaluate(engine, expr)} :
         /\ engine' = r.e
         /\ last' = [op |-> "evaluate", expr |-> expr, res |-> r.res]
  /\ UNCHANGED refs

Returned == last.op \in {"call", "evaluate"}

Panicked == Returned /\ IsPanic(last.res)

\* the host drops what the operation returned
DropResult ==
  /\ ~Idle
  /\ ~Panicked
  /\ engine' = DropUnreachable(engine)
  /\ last' = [op |-> "none"]
  /\ UNCHANGED refs

Next == RegisterFunction \/ CreateReturnTarget \/ CreateGlobal \/ ResetGlobals \/ Call \/ CallReturned \/ Evaluate \/ DropResult

Spec == Init /\ [][Next]_vars

(***************************************************************************)
(* Reading the trace of the operation that has just returned.              *)
(***************************************************************************)
Events(kind) == {i \in 1..Len(engine.log) : engine.log[i].ev = kind}

\* the value stored by the last Return evaluated before position j of the trace
StoredBefore(j) == engine.log[CHOOSE i \in Events("raise") : i < j /\ \A k \in Events("raise") : k < j => k <= i].v

RaisedBefore(j) == \E i \in Events("raise") : i < j

\* the errors that are not the Return signal
IsFailure(res) == ~res.ok /\ res.err.err \in {"InvalidInvocationTarget", "IncorrectArgumentCount"}

\* the payloads the globals hold
GlobalPayloads(e) == [i \in 1..Len(e.globals) |-> Raw(e.globals[i], e.heap)]

(***************************************************************************)
(* Pool discipline and arity errors.                                       *)
(***************************************************************************)
\* C1: once a top-level call has returned, with a value or with an error, no stack
\* slice is outstanding: the base of the stack pool is what it was at construction.
C1_NoSliceOutstanding == (last.op = "call" /\ ~Panicked) => engine.stack.base = 0

\* C2: a call with an argument count the arity rejects leaves globals, return_value,
\* the function table, next_return_target and the base of the stack pool as they were.
C2_InvalidCountLeavesState ==
  [][(last'.op = "call" /\ ~valid_arg_count(last'.func.arg_count, Len(last'.args)))
       => /\ engine'.globals = engine.globals
          /\ GlobalPayloads(engine') = GlobalPayloads(engine)
          /\ engine'.return_value = engine.return_value
          /\ engine'.functions = engine.functions
          /\ engine'.next_return_target = engine.next_return_target
          /\ engine'.stack.base = engine.stack.base]_vars

\* C3: when an expression of a function body, final or not, fails with an error other
\* than Return, the call of that body returns exactly that error and no later
\* expression of the body is evaluated.
C3_FailureEndsBody ==
  (Returned /\ ~Panicked) => \A i \in Events("expr") :
    IsFailure(engine.log[i].res)
      => /\ \E j \in Events("exit") : engine.log[j].act = engine.log[i].act /\ engine.log[j].out = engine.log[i].res
         /\ \A k \in Events("expr") : engine.log[k].act = engine.log[i].act => engine.log[k].idx <= engine.log[i].idx

\* C10: a call with an argument count the arity rejects (top-level, static or dynamic)
\* fails with IncorrectArgumentCount: expected_min the minimum of the arity, expected_max
\* Some(maximum) for Fixed and Range and None for Variadic, actual the count given.
ExpectedError(a, k) ==
  [err |-> "IncorrectArgumentCount",
   expected_min |-> IF a.t = "Fixed" THEN a.f ELSE a.min,
   expected_max |-> IF a.t = "Variadic" THEN [some |-> FALSE] ELSE [some |-> TRUE, v |-> IF a.t = "Fixed" THEN a.f ELSE a.max],
   actual |-> k]

C10_ArityError ==
  /\ (last.op = "call" /\ ~valid_arg_count(last.func.arg_count, Len(last.args)))
       => last.res = [ok |-> FALSE, err |-> ExpectedError(last.func.arg_count, Len(last.args))]
  /\ \A f \in Arities : \A k \in 0..MaxArgs :
       (last.op = "evaluate" /\ last.expr \in {StaticFunctionCall(f, Literals(k)), DynamicFunctionCall(RawValue(FunctionValue(f)), Literals(k))} /\ ~valid_arg_count(f.arg_count, k))
         => last.res = [ok |-> FALSE, err |-> ExpectedError(f.arg_count, k)]

\* a dynamic call of the variadic rest with no argument has failed, with no maximum
C10_Witness == last.op = "evaluate" /\ last.expr = DynamicFunctionCall(RawValue(FunctionValue(F_rest)), <<>>) /\ ~last.res.ok /\ last.res.err.err = "IncorrectArgumentCount" /\ ~last.res.err.expected_max.some /\ last.res.err.actual = 0

(***************************************************************************)
(* Non-local return.                                                       *)
(***************************************************************************)
\* the target a leaf raises when it is evaluated (-1: none)
RaisedTarget(l) == IF l.op = "Return" THEN l.target ELSE IF l = StaticFunctionCall(F_raise0, <<>>) THEN 0 ELSE -1

\* the expressions that evaluate Return(t, E) inside ReturnTarget(t, _), one or two
\* contexts deep, with no nearer catch for t
CaughtExpressions ==
  [t \in {0, 1} |->
    {ReturnTarget(t, Context(c, l)) : c \in Contexts, l \in {x \in Leaves : RaisedTarget(x) = t}}
    \cup {ReturnTarget(t, Context(c, Context(d, ReturnExpr(t, RawValue(Number(1)))))) : c \in DeepContexts, d \in Contexts}]

\* those of them whose E is the literal v
LiteralReturns ==
  [t \in {0, 1} |-> [v \in {Number(1), Number(2)} |->
    {ReturnTarget(t, Context(c, Context(d, ReturnExpr(t, RawValue(v))))) : c \in Contexts, d \in Contexts}]]

\* C4: when Return(t, E) is evaluated at any depth inside ReturnTarget(t, B), in an
\* operand, a call argument or target, an assignment side, an initializer or native
\* argument, with no nearer catch for t, the ReturnTarget yields Ok with the value E
\* evaluated to.
C4_ReturnCaught ==
  \A t \in {0, 1} :
    (last.op = "evaluate" /\ last.expr \in CaughtExpressions[t] /\ ~Panicked)
      => /\ RaisedBefore(Len(engine.log) + 1)
         /\ last.res = Ok(StoredBefore(Len(engine.log) + 1))
         /\ \A v \in {Number(1), Number(2)} : last.expr \in LiteralReturns[t][v] => last.res = Ok(v)

\* Return(0, 1) sits in an initializer argument inside an argument of a static call
\* inside ReturnTarget(0, _), and the ReturnTarget has yielded 1
C4_Witness == last.op = "evaluate" /\ last.expr = ReturnTarget(0, Context(6, Context(12, ReturnExpr(0, RawValue(Number(1)))))) /\ last.res = Ok(Number(1))

\* C5: a Return{t'} that reaches ReturnTarget(t, _) with t' # t, or the end of a function
\* body whose return_target is not t', is not caught: it propagates as the same
\* Return{t'} and return_value still holds the value that Return stored.
C5_OtherTargetPropagates ==
  (Returned /\ ~Panicked) =>
    /\ \A j \in Events("ReturnTarget") :
         (IsReturn(engine.log[j].inner) /\ engine.log[j].inner.err.target # engine.log[j].target)
           => /\ engine.log[j].out = engine.log[j].inner
              /\ RaisedBefore(j)
              /\ engine.log[j].return_value = StoredBefore(j)
    /\ \A i \in Events("expr") :
         (IsReturn(engine.log[i].res) /\ engine.log[i].res.err.target # engine.log[i].rt)
           => \E j \in Events("exit") :
                /\ j > i
                /\ engine.log[j].act = engine.log[i].act
                /\ engine.log[j].out = engine.log[i].res
                /\ RaisedBefore(j)
                /\ engine.log[j].return_value = StoredBefore(j)
    /\ IsReturn(last.res) => (RaisedBefore(Len(engine.log) + 1) /\ engine.return_value = StoredBefore(Len(engine.log) + 1))

\* raise0, whose own target is 2, has raised Return{0} inside ReturnTarget(2, _): the
\* signal has passed the boundary of the function and the ReturnTarget
C5_Witness == last.op = "evaluate" /\ last.expr = ReturnTarget(2, StaticFunctionCall(F_raise0, <<>>)) /\ last.res = Err(Return(0)) /\ engine.return_value = Number(1) /\ Events("exit") # {} /\ Events("ReturnTarget") # {}

\* C6: in a body e1..en with return_target t, once some ei raises Return{t} the result
\* of the call is the value that Return stored and e(i+1)..en are never evaluated.
C6_ReturnEndsBody ==
  (Returned /\ ~Panicked) => \A i \in Events("expr") :
    (IsReturn(engine.log[i].res) /\ engine.log[i].res.err.target = engine.log[i].rt)
      => /\ RaisedBefore(i)
         /\ \E j \in Events("exit") : j > i /\ engine.log[j].act = engine.log[i].act /\ engine.log[j].out = Ok(StoredBefore(i))
         /\ \A k \in Events("expr") : engine.log[k].act = engine.log[i].act => engine.log[k].idx <= engine.log[i].idx

\* body(raise0, len), whose target is 0: its first expression raised Return{0}, the call
\* returned 1 and global 0, which its second expression assigns, is still unset
C6_Witness == last.op = "call" /\ last.func = F_body /\ last.args = <<FunctionValue(F_raise0), FunctionValue(N_len)>> /\ last.res = Ok(Number(1)) /\ Len(engine.globals) > 0 /\ GlobalPayloads(engine)[1] = Null

(***************************************************************************)
(* Closures and reference cells.                                           *)
(***************************************************************************)
CaptureEvents(e) == {i \in 1..Len(e.log) : e.log[i].ev = "capture"}

\* the cell a capture site addressed in the environment FunctionCapture ran in
SiteCell(site, ev) ==
  CASE site.t = "Stack" -> ev.stack[site.addr + 1]
    [] site.t = "Captured" -> ev.captured[site.addr + 1]
    [] site.t = "Global" -> ev.globals[site.addr + 1]

\* what FunctionCapture(d) yielded is d made a CapturingRef over the cells of its sites
Materialised(ev) ==
  /\ ev.out.k = "Function"
  /\ ev.out.f.function_type.t = "CapturingRef"
  /\ Len(ev.out.f.function_type.captures) = Len(ev.def.function_type.capture)
  /\ \A i \in 1..Len(ev.def.function_type.capture) : ev.out.f.function_type.captures[i] = SiteCell(ev.def.function_type.capture[i], ev)
  /\ ev.out.f.location = ev.def.location
  /\ ev.out.f.arg_count = ev.def.arg_count
  /\ ev.out.f.stack_size = ev.def.stack_size

\* the engine an operation starts on: its trace is empty
PreEngine == [engine EXCEPT !.log = <<>>, !.acts = 0]

\* the body r refers to, run on the frame made of args with the captures of r
RunBody(e, r, args) ==
  LET Run(rq, m) == Function_call(e.functions[r.location + 1], m.e, rq.slice, r.function_type.captures)
      Acquired(rq) == Run(rq, Marshal(r, ArgValues(args), Len(args), rq.slice, rq.e))
  IN Acquired(request(e, r.stack_size))

\* C7: FunctionCapture(d) yields a CapturingRef whose i-th captured value is the cell
\* site i addressed at capture time, with the location, arity and stack size of d; and
\* calling it with arguments A gives what the body of d gives on the frame A with those
\* captures (for the adder of makeAdder: x + n).
C7_CaptureAndCall ==
  [][/\ \A i \in CaptureEvents(engine') : Materialised(engine'.log[i])
     /\ (last'.op = "call" /\ last'.func.function_type.t = "CapturingRef" /\ valid_arg_count(last'.func.arg_count, Len(last'.args)))
          => /\ last'.res = RunBody(PreEngine, last'.func, last'.args).res
             /\ last'.func.location = F_inner.location
                  => \E n \in 0..(NumMod - 1) : Raw(last'.func.function_type.captures[1], engine.heap) = Number(n) /\ last'.res = Ok(Number((1 + n) % NumMod))]_vars

\* the closure leaf, made inside the closure mid over a captured value, a slot and a
\* global, has been called and has returned m + y = 2
C7_Witness == last.op = "call" /\ last.func.function_type.t = "CapturingRef" /\ last.func.location = F_leaf.location /\ Len(last.func.function_type.captures) = 3 /\ last.res = Ok(Number(2 % NumMod))

\* what calling the closure g with no argument shows
Observe(e, g) ==
  LET Seen(r) == IF r.res.ok THEN Raw(r.res.v, r.e.heap) ELSE [k |-> "error"]
  IN Seen(call(e, g, <<>>))

IsClosureOf(v, d) == v.k = "Function" /\ v.f.function_type.t = "CapturingRef" /\ v.f.location = d.location

\* C8: the value a closure captured and the cell of the environment it was captured
\* from are one cell: what AssignStack writes in the defining frame after the capture
\* (mk) the closure reads; what a closure writes through its captured value (put) the
\* defining frame (share) and the other closures of that cell (get) read; and so it
\* stays once the defining frame is released and its storage taken by a later call
\* (reuse).
C8_CapturedCellShared ==
  [][/\ (last'.op = "call" /\ last'.func = F_mk /\ last'.res.ok /\ last'.args[1].k # "Ref")
          => /\ IsClosureOf(GlobalPayloads(engine')[1], F_get)
             /\ IsClosureOf(GlobalPayloads(engine')[2], F_put)
             /\ GlobalPayloads(engine')[1].f.function_type.captures = GlobalPayloads(engine')[2].f.function_type.captures
             /\ Observe(engine', GlobalPayloads(engine')[1].f) = Number(2)
     /\ (last'.op = "call" /\ IsClosureOf(FunctionValue(last'.func), F_put) /\ last'.res.ok)
          => \A g \in GlobalFunctions(engine') :
               (IsClosureOf(FunctionValue(g), F_get) /\ g.function_type.captures = last'.func.function_type.captures)
                 => Observe(engine', g) = Raw(last'.args[1], engine.heap)
     /\ (last'.op = "call" /\ last'.func = F_share /\ last'.res.ok)
          => /\ Raw(last'.res.v, engine'.heap) = Number(3)
             /\ IsClosureOf(GlobalPayloads(engine')[1], F_get)
             /\ Observe(engine', GlobalPayloads(engine')[1].f) = Number(3)
     /\ (last'.op = "call" /\ last'.func = F_reuse /\ last'.res.ok)
          => Raw(last'.res.v, engine'.heap) = Number(2)]_vars

\* put, a closure of the cell mk left holding 2, has been called with 1, and the get
\* closure of the same cell is in a global
C8_Witness ==
  /\ last.op = "call" /\ IsClosureOf(FunctionValue(last.func), F_put) /\ last.res.ok
  /\ \E g \in GlobalFunctions(engine) : IsClosureOf(FunctionValue(g), F_get) /\ g.function_type.captures = last.func.function_type.captures /\ Raw(g.function_type.captures[1], engine.heap) = Number(1)

\* the value the body of f writes with AssignStack(0, RawValue(v))
Written == [f \in {F_set, F_mk} |-> IF f = F_set THEN Number(3) ELSE Number(2)]

\* C9: f has slot 0 a reference slot and executes AssignStack(0, RawValue(v)); after
\* call(f, [x]) with x a handle to the cell c, every other handle to c observes v, and
\* in the callee Variable(Stack(0)) shows it (set returns Variable(Stack(0))).
C9_WriteThrough ==
  \A f \in {F_set, F_mk} :
    (last.op = "call" /\ last.func = f /\ Len(last.args) = 1 /\ last.args[1].k = "Ref" /\ last.res.ok)
      => /\ is_alloc(f.layout, 0)
         /\ Raw(last.args[1], engine.heap) = Written[f]
         /\ \A i \in 1..Len(engine.globals) : engine.globals[i].cell = last.args[1].cell => GlobalPayloads(engine)[i] = Written[f]
         /\ f = F_set => Raw(last.res.v, engine.heap) = Number(3)

\* set has been called with a handle to the cell of global 0, and global 0 holds 3
C9_Witness == last.op = "call" /\ last.func = F_set /\ Len(last.args) = 1 /\ last.args[1].k = "Ref" /\ last.res.ok /\ Len(engine.globals) > 0 /\ engine.globals[1].cell = last.args[1].cell /\ GlobalPayloads(engine)[1] = Number(3)

(***************************************************************************)
(* Nesting: a chain of functions f_0, f_1, ..., each calling the next from *)
(* its body.  Every function of the chain has a frame of ChainFrame slots. *)
(* One step is the request of call_internal for the next function of the   *)
(* chain (line 139) or the release after the innermost call has returned   *)
(* (line 188).                                                             *)
(***************************************************************************)
\* stack_size of every function of the chain
ChainFrame == 2

\* call_internal, line 139, for the next function of the chain
EnterFrame ==
  /\ Idle
  /\ IF StackOverflow(engine, ChainFrame)
     THEN last' = [op |-> "call", res |-> Panic("Stack overflow")] /\ UNCHANGED engine
     ELSE engine' = request(engine, ChainFrame).e /\ UNCHANGED last
  /\ UNCHANGED refs

\* call_internal, line 188, for the innermost function that is running
LeaveFrame ==
  /\ Idle
  /\ engine.stack.base >= ChainFrame
  /\ engine' = release(engine, ChainFrame)
  /\ UNCHANGED <<last, refs>>

NextNesting == EnterFrame \/ LeaveFrame

SpecNesting == Init /\ [][NextNesting]_vars

\* C11: acquiring the frame of a call never fails, at any nesting depth: no call
\* panics with a stack overflow.
C11_NoStackOverflow == ~(Panicked /\ last.res = Panic("Stack overflow"))

(***************************************************************************)
(* Global addresses.                                                       *)
(***************************************************************************)
\* C12: across create_global and reset_globals, create_global never returns an
\* address it has returned before.
C12_AddressNeverReused == [][last'.op = "create_global" => last'.addr \notin engine.handed]_vars

(***************************************************************************)
(* VMWriter (vm_writer.rs): the front-end that counts globals and return   *)
(* targets, collects functions and builds the engine in finish.  Here refs *)
(* is what the host holds: the writer, the global addresses it was handed, *)
(* and whether it has called reset_globals on the engine it built.         *)
(***************************************************************************)
\* VMWriter::new
VMWriter_new == [functions |-> <<>>, globals |-> 0, next_return_target |-> 0]

\* VMWriter::create_global: the writer after it; the address returned is w.globals
VMWriter_create_global(w) == [w EXCEPT !.globals = @ + 1]

\* create_return_target with a fault: the counter is left where it was
VMWriter_create_return_target_same(w) == w

\* VMWriter::create_return_target: the writer after it; the id returned is w.next_return_target
VMWriter_create_return_target(w) == [w EXCEPT !.next_return_target = @ + 1]

\* VMWriter::include_function: the writer after it
include_function(w, function, return_target) == [w EXCEPT !.functions = Append(@, build(function, return_target))]

\* lines 47 and 51-56: the reference include_function returns
included_ref(w, function) == to_ref(function, Len(w.functions))

\* the wrapper with a fault: the arguments are passed last first
native_wrapper_reversed(f, args) == evaluate_expression(FunctionWriter_new(Fixed(args)), NativeFunctionCall(f, [n \in 1..args |-> Variable(Stack(args - n))]))

\* lines 65-67: the body include_native_function writes, NativeFunctionCall(f, [stack(0), .., stack(args - 1)])
native_wrapper(f, args) == evaluate_expression(FunctionWriter_new(Fixed(args)), NativeFunctionCall(f, [n \in 1..args |-> Variable(Stack(n - 1))]))

\* lines 60-70: VMWriter::include_native_function, the writer after it; the id of
\* create_return_target is taken before the function is included
include_native_function(w, f, args) == include_function(VMWriter_create_return_target(w), native_wrapper(f, args), w.next_return_target)

\* VMWriter::finish: num_globals, globals and functions as written there, the
\* fields of the engine it does not name as ExecutionEngine::new leaves them
finish(w, entry_point) == [ExecutionEngine_new EXCEPT !.num_globals = w.globals, !.globals = <<>>, !.functions = w.functions]

\* the functions the host includes, in order: add and set
WriterProgram == <<W_add, W_set>>

\* no engine is built yet
NoEngine == [built |-> FALSE]

MaxNatives == 1

InitWriter == engine = NoEngine /\ last = [op |-> "none"] /\ refs = [writer |-> VMWriter_new, handed |-> {}, finished |-> FALSE, reset |-> FALSE, targets |-> <<>>, built_targets |-> <<>>, included |-> <<>>, natives |-> <<>>]

WriterCreateGlobal ==
  /\ ~refs.finished
  /\ refs.writer.globals < MaxGlobals
  /\ refs' = [refs EXCEPT !.writer = VMWriter_create_global(@), !.handed = @ \cup {refs.writer.globals}]
  /\ UNCHANGED <<engine, last>>

WriterCreateReturnTarget ==
  /\ ~refs.finished
  /\ refs.writer.next_return_target < MaxTargets
  /\ refs' = [refs EXCEPT !.writer = VMWriter_create_return_target(@), !.targets = Append(@, refs.writer.next_return_target)]
  /\ UNCHANGED <<engine, last>>

WriterIncludeFunction ==
  /\ ~refs.finished
  /\ Len(refs.included) - Len(refs.natives) < Len(WriterProgram)
  /\ refs.writer.next_return_target > 0
  /\ refs' = [refs EXCEPT !.writer = include_function(@, WriterProgram[Len(refs.included) - Len(refs.natives) + 1], refs.writer.next_return_target - 1),
                           !.included = Append(@, included_ref(refs.writer, WriterProgram[Len(refs.included) - Len(refs.natives) + 1]))]
  /\ UNCHANGED <<engine, last>>

\* the native functions the host wraps, with the number of arguments of each
WrappedNatives == {[f |-> "nat_sum", args |-> 2], [f |-> "nat_len", args |-> 0], [f |-> "nat_fail", args |-> 1]}

WriterIncludeNativeFunction ==
  /\ ~refs.finished
  /\ Len(refs.natives) < MaxNatives
  /\ refs.writer.next_return_target < MaxTargets
  /\ \E n \in WrappedNatives :
       \E r \in {included_ref(VMWriter_create_return_target(refs.writer), native_wrapper(n.f, n.args))} :
         refs' = [refs EXCEPT !.writer = include_native_function(@, n.f, n.args),
                              !.targets = Append(@, refs.writer.next_return_target),
                              !.included = Append(@, r),
                              !.natives = Append(@, [ref |-> r, f |-> n.f, args |-> n.args, target |-> refs.writer.next_return_target])]
  /\ UNCHANGED <<engine, last>>

\* finish with the first function included as the entry point
WriterFinish ==
  /\ ~refs.finished
  /\ refs.writer.functions # <<>>
  /\ engine' = finish(refs.writer, refs.included[1])
  /\ refs' = [refs EXCEPT !.finished = TRUE]
  /\ UNCHANGED last

\* the expressions the host evaluates on the engine it built: a read and a
\* write of an address create_global handed out
GlobalExpressions == {Variable(Global(a)) : a \in refs.handed} \cup {AssignGlobal(a, RawValue(Number(n))) : a \in refs.handed, n \in 0..(NumMod - 1)}

BuiltEvaluate ==
  /\ refs.finished
  /\ Idle
  /\ \E expr \in GlobalExpressions :
       \E r \in {evaluate(engine, expr)} :
         /\ engine' = r.e
         /\ last' = [op |-> "evaluate", expr |-> expr, res |-> r.res]
  /\ UNCHANGED refs

BuiltResetGlobals ==
  /\ refs.finished
  /\ Idle
  /\ engine' = reset_globals(engine)
  /\ last' = [op |-> "reset_globals"]
  /\ refs' = [refs EXCEPT !.reset = TRUE]

BuiltCreateReturnTarget ==
  /\ refs.finished
  /\ Idle
  /\ engine.next_return_target < MaxTargets
  /\ engine' = create_return_target(engine)
  /\ last' = [op |-> "create_return_target", id |-> engine.next_return_target]
  /\ refs' = [refs EXCEPT !.built_targets = Append(@, engine.next_return_target)]

\* a call of a wrapped native function with the number of arguments it was included with
BuiltCall ==
  /\ refs.finished
  /\ Idle
  /\ engine.stack.base <= MaxBase
  /\ \E i \in 1..Len(refs.natives) :
       \E args \in {[k \in 1..refs.natives[i].args |-> Number(k % NumMod)]} :
         \E r \in {call(engine, refs.natives[i].ref, args)} :
           /\ engine' = r.e
           /\ last' = [op |-> "call", func |-> refs.natives[i].ref, native |-> refs.natives[i].f, args |-> args, res |-> r.res]
  /\ UNCHANGED refs

NextWriter == WriterCreateGlobal \/ WriterCreateReturnTarget \/ WriterIncludeFunction \/ WriterFinish \/ BuiltEvaluate \/ BuiltResetGlobals \/ DropResult

\* the writer and the engine it builds, with native functions and without globals
NextNatives == WriterCreateReturnTarget \/ WriterIncludeFunction \/ WriterIncludeNativeFunction \/ WriterFinish \/ BuiltResetGlobals \/ BuiltCreateReturnTarget \/ BuiltCall \/ DropResult

SpecNatives == InitWriter /\ [][NextNatives]_vars

SpecWriter == InitWriter /\ [][NextWriter]_vars

\* C13: on the engine finish built, with no further setup step, reading and assigning
\* an address VMWriter::create_global returned succeeds: the address denotes a cell
\* of the engine, and a read yields a handle to it.
C13_WriterGlobalsExist ==
  (refs.finished /\ ~refs.reset /\ last.op = "evaluate")
    => /\ last.res.ok
       /\ last.expr.op = "Variable" => last.res.v = engine.globals[last.expr.var.addr + 1]

(***************************************************************************)
(* Order of evaluation.  What an operation shows: its result, the payloads *)
(* of the globals, return_value, and the assignments of the trace in the   *)
(* order they happened.                                                    *)
(***************************************************************************)
IsAssign(x) == x.ev = "assign"

Observed(r) == [res |-> IF r.res.ok THEN Ok(Raw(r.res.v, r.e.heap)) ELSE r.res, globals |-> GlobalPayloads(r.e), return_value |-> Raw(r.e.return_value, r.e.heap), assigns |-> SelectSeq(r.e.log, IsAssign)]

\* the expressions evaluated one after the other by the host, each fully before the
\* next, up to the first that fails: the values, or the failure
RECURSIVE InTurn(_, _, _)
InTurn(exprs, vals, e) ==
  IF exprs = <<>> THEN R(Ok(vals), e)
  ELSE LET Got(a) == IF ~a.res.ok THEN a ELSE InTurn(Tail(exprs), Append(vals, a.res.v), a.e)
       IN Got(evaluate(e, Head(exprs)))

\* operands in turn, then the operator
BinaryInOrder(x, e) ==
  LET Got(a) == IF ~a.res.ok THEN a ELSE R(Ok(apply_2(x.bop, a.res.v[1], a.res.v[2], a.e.heap)), a.e)
  IN Got(InTurn(x.operands, <<>>, e))

\* arguments in turn, then the call with their values
CallInOrder(f, args, e) ==
  LET Got(a) == IF ~a.res.ok THEN a ELSE call(a.e, f, a.res.v)
  IN Got(InTurn(args, <<>>, e))

\* target, then arguments in turn, then the call
DynamicInOrder(x, e) ==
  LET Got(t) == IF ~t.res.ok THEN t ELSE CallInOrder(cast_to_function(t.res.v, t.e.heap).v, x.args, t.e)
  IN Got(evaluate(e, x.func))

\* target, then value, then the assignment
AssignInOrder(x, e) ==
  LET Got(a) == IF ~a.res.ok THEN a ELSE R(Ok(Default), Assigned("Dynamic", a.res.v[1], a.res.v[2], AssignSlot(dupe_ref(a.res.v[1]), a.res.v[2], a.e).e))
  IN Got(InTurn(x.args, <<>>, e))

\* the calls the order is stated for: the target is callable and accepts the count
CallProceeds(x, e) ==
  CASE x.op = "StaticFunctionCall" -> valid_arg_count(x.func.arg_count, Len(x.args))
    [] x.op = "DynamicFunctionCall" -> LET Accepts(t) == t.res.ok /\ cast_to_function(t.res.v, t.e.heap).some /\ valid_arg_count(cast_to_function(t.res.v, t.e.heap).v.arg_count, Len(x.args))
                                       IN Accepts(evaluate(e, x.func))
    [] OTHER -> TRUE

InOrder(x, e) ==
  CASE x.op = "BinaryOpEval" -> BinaryInOrder(x, e)
    [] x.op = "StaticFunctionCall" -> CallInOrder(x.func, x.args, e)
    [] x.op = "DynamicFunctionCall" -> DynamicInOrder(x, e)
    [] x.op = "AssignDynamic" -> AssignInOrder(x, e)

\* C14: evaluation is left to right: a binary operation, a call and a dynamic
\* assignment show the result, the globals and the sequence of assignments of their
\* parts evaluated one after the other in program order (left operand then right;
\* target, then each argument, then the body; target, then value, then the assignment).
C14_LeftToRight ==
  [][(last'.op = "evaluate" /\ Idle /\ ~IsPanic(last'.res)
       /\ last'.expr.op \in {"BinaryOpEval", "StaticFunctionCall", "DynamicFunctionCall", "AssignDynamic"}
       /\ CallProceeds(last'.expr, engine))
      => Observed(R(last'.res, engine')) = Observed(InOrder(last'.expr, engine))]_vars

\* set(global0) + (global0 := 1) has been evaluated: global 0 was assigned 3 by the
\* left operand and then 1 by the right operand
C14_Witness ==
  /\ last.op = "evaluate" /\ last.expr = BinaryOpEval("Add", SetGlobal, AssignGlobal(0, RawValue(Number(1)))) /\ last.res.ok
  /\ [i \in 1..2 |-> SelectSeq(engine.log, IsAssign)[i].v] = <<Number(3), Number(1)>>
  /\ GlobalPayloads(engine)[1] = Number(1)

(***************************************************************************)
(* Targets that cannot be called.                                          *)
(***************************************************************************)
\* the call through global 1 whose argument assigns global 1
CallThroughGlobal == DynamicFunctionCall(Variable(Global(1)), <<AssignGlobal(1, RawValue(Number(1)))>>)

\* C15: a DynamicFunctionCall whose target evaluates to a value that is not callable
\* yields InvalidInvocationTarget and leaves the engine as the evaluation of the
\* target left it: no argument is evaluated and no frame is acquired.
C15_UncallableTarget ==
  [][(last'.op = "evaluate" /\ Idle /\ last'.expr.op = "DynamicFunctionCall")
      => LET Holds(t) == (t.res.ok /\ ~cast_to_function(t.res.v, t.e.heap).some)
                           => /\ last'.res = Err(InvalidInvocationTarget)
                              /\ engine' = t.e
                              /\ engine'.stack.base = engine.stack.base
         IN Holds(evaluate(engine, last'.expr.func))]_vars

\* global 1 holds 3, which is not callable: the call through it has failed and its
\* argument, which would assign 1 to global 1, has not been evaluated
C15_Witness ==
  /\ last.op = "evaluate" /\ last.expr = CallThroughGlobal /\ last.res = Err(InvalidInvocationTarget)
  /\ GlobalPayloads(engine)[2] = Number(3)
  /\ SelectSeq(engine.log, IsAssign) = <<>>

\* the reference a call names directly, and its argument count: the func of a
\* top-level call, of a StaticFunctionCall, or the literal target of a DynamicFunctionCall
DirectCall(l) ==
  CASE l.op = "call" -> Some([func |-> l.func, count |-> Len(l.args)])
    [] l.op = "evaluate" /\ l.expr.op = "StaticFunctionCall" -> Some([func |-> l.expr.func, count |-> Len(l.expr.args)])
    [] l.op = "evaluate" /\ l.expr.op = "DynamicFunctionCall" /\ l.expr.func.op = "RawValue" /\ l.expr.func.v.k = "Function" -> Some([func |-> l.expr.func.v.f, count |-> Len(l.expr.args)])
    [] OTHER -> None

\* the call fails with InvalidInvocationTarget, no expression of a body is
\* evaluated, and the base of the pool is what it was before the call
FailsAsTemplate(l, before, after) ==
  /\ l.res = Err(InvalidInvocationTarget)
  /\ \A i \in 1..Len(after.log) : after.log[i].ev \notin {"expr", "exit"}
  /\ after.stack.base = before.stack.base

C17_DynamicAsStatic ==
  [][(last'.op = "evaluate" /\ Idle /\ last'.expr.op = "DynamicFunctionCall")
      => LET Same(s) == last'.res = s.res /\ engine' = s.e
             Target(t) == (t.res.ok /\ cast_to_function(t.res.v, t.e.heap).some)
                            => Same(evaluate(t.e, StaticFunctionCall(cast_to_function(t.res.v, t.e.heap).v, last'.expr.args)))
         IN Target(evaluate(engine, last'.expr.func))]_vars

\* add is in global 0 and the call through global 0 with 1 and 2 has returned 3
C17_Witness ==
  /\ last.op = "evaluate" /\ last.expr = DynamicFunctionCall(Variable(Global(0)), <<RawValue(Number(1)), RawValue(Number(2))>>)
  /\ Len(engine.globals) > 0
  /\ GlobalPayloads(engine)[1] = FunctionValue(F_add)
  /\ last.res = Ok(Number(3))

\* the closure get is in global 0 and the call through global 0 has returned the
\* payload 2 of the cell it captured
C17_ClosureCalled ==
  /\ last.op = "evaluate" /\ last.expr = DynamicFunctionCall(Variable(Global(0)), <<>>)
  /\ Len(engine.globals) > 0
  /\ GlobalPayloads(engine)[1].k = "Function" /\ GlobalPayloads(engine)[1].f.function_type.t = "CapturingRef"
  /\ last.res.ok /\ Raw(last.res.v, engine.heap) = Number(2)

(***************************************************************************)
(* ArgCount::new and ArgCount::new_variadic (function/arg_count.rs) over   *)
(* the range bounds a host can write.  The build is an input: with or      *)
(* without the feature variadic_functions, with or without overflow checks *)
(* (m - 1 on an excluded upper bound 0 panics with them and wraps without).*)
(***************************************************************************)
\* the numbers the host writes in a range are at most this
MaxBound == 3

Included(m) == [b |-> "Included", m |-> m]

Excluded(m) == [b |-> "Excluded", m |-> m]

Unbounded == [b |-> "Unbounded"]

Bounds == {Included(m) : m \in 0..MaxBound} \cup {Excluded(m) : m \in 0..MaxBound} \cup {Unbounded}

Builds == [variadic_functions : BOOLEAN, overflow_checks : BOOLEAN]

\* match args.start_bound() { .. }.unwrap_or(0)
StartMin(start) == CASE start.b = "Included" -> start.m [] start.b = "Excluded" -> start.m + 1 [] start.b = "Unbounded" -> 0

\* match args.end_bound() { .. }: Some(Ok(max)), None, or the panic of m - 1 at 0
EndMax(cfg, end) ==
  CASE end.b = "Included" -> Some(Ok(end.m))
    [] end.b = "Excluded" -> Some(IF end.m > 0 THEN Ok(end.m - 1) ELSE IF cfg.overflow_checks THEN Panic("attempt to subtract with overflow") ELSE Ok(UsizeMax))
    [] end.b = "Unbounded" -> None

\* ArgCount::new, lines 18-38 without the feature and 39-57 with it
ArgCount_new(cfg, start, end) ==
  LET min == StartMin(start)
      max == EndMax(cfg, end)
  IN IF max.some /\ ~max.v.ok THEN max.v
     ELSE IF ~cfg.variadic_functions
          THEN LET m == IF max.some THEN max.v.v ELSE 0 IN Ok(IF min = m THEN Fixed(min) ELSE Range(min, m))
          ELSE Ok(IF max.some THEN Range(min, max.v.v) ELSE Variadic(min, min))

\* ArgCount::new_variadic, lines 59-77 (only with the feature)
ArgCount_new_variadic(cfg, start, end) ==
  LET min == StartMin(start)
      max == EndMax(cfg, end)
  IN IF max.some /\ ~max.v.ok THEN max.v
     ELSE Ok(IF max.some THEN Variadic(min, max.v.v) ELSE Variadic(min, min))

InitArgCount == engine = NoEngine /\ last = [op |-> "none"] /\ refs = <<>>

NewArgCount ==
  /\ Idle
  /\ \E cfg \in Builds, start \in Bounds, end \in Bounds :
       last' = [op |-> "ArgCount::new", cfg |-> cfg, start |-> start, end |-> end, res |-> ArgCount_new(cfg, start, end)]
  /\ UNCHANGED <<engine, refs>>

NewVariadicArgCount ==
  /\ Idle
  /\ \E cfg \in Builds, start \in Bounds, end \in Bounds :
       /\ cfg.variadic_functions
       /\ last' = [op |-> "ArgCount::new_variadic", cfg |-> cfg, start |-> start, end |-> end, res |-> ArgCount_new_variadic(cfg, start, end)]
  /\ UNCHANGED <<engine, refs>>

\* valid_arg_count on the descriptor just built
ValidArgCount ==
  /\ last.op \in {"ArgCount::new", "ArgCount::new_variadic"}
  /\ last.res.ok
  /\ \E k \in 0..(MaxBound + 1) :
       last' = [op |-> "valid_arg_count", made |-> last, k |-> k, res |-> valid_arg_count(last.res.v, k)]
  /\ UNCHANGED <<engine, refs>>

DropArgCount ==
  /\ ~Idle
  /\ last' = [op |-> "none"]
  /\ UNCHANGED <<engine, refs>>

NextArgCount == NewArgCount \/ NewVariadicArgCount \/ ValidArgCount \/ DropArgCount

SpecArgCount == InitArgCount /\ [][NextArgCount]_vars

\* k lies in the range with these bounds
InRange(k, start, end) ==
  /\ CASE start.b = "Included" -> k >= start.m [] start.b = "Excluded" -> k > start.m [] start.b = "Unbounded" -> TRUE
  /\ CASE end.b = "Included" -> k <= end.m [] end.b = "Excluded" -> k < end.m [] end.b = "Unbounded" -> TRUE

\* C18: for every range r given to ArgCount::new and every k, valid_arg_count(k) holds
\* exactly when k lies in r; for a variadic descriptor it holds exactly when k >= min.
C18_ValidIffInRange ==
  last.op = "valid_arg_count"
    => /\ last.made.op = "ArgCount::new" => (last.res <=> InRange(last.k, last.made.start, last.made.end))
       /\ last.made.res.v.t = "Variadic" => (last.res <=> last.k >= ArgCount_min(last.made.res.v))

\* the number both bounds of a range denote, if they denote the same one (n..=n, n..n+1)
SameNumber(start, end) == {n \in 0..MaxBound : start \in {Included(n), Excluded(n - 1)} /\ end \in {Included(n), Excluded(n + 1)}}

\* C19: ArgCount::new of a range whose lower and upper bounds denote the same number n
\* returns Fixed(n), with and without variadic_functions.
C19_EqualBoundsCollapse ==
  last.op = "ArgCount::new" => \A n \in SameNumber(last.start, last.end) : last.res = Ok(Fixed(n))

(***************************************************************************)
(* Variadic marshalling.                                                   *)
(***************************************************************************)
\* the frame the callee of the top-level call was entered with
EnteredFrame == engine.log[CHOOSE i \in Events("enter") : \A j \in Events("enter") : i <= j]

\* C20: a Variadic function with fixed part m = max_capped called with k >= min
\* arguments is entered with the first min(k, m) arguments in slots 0..min(k, m) - 1,
\* in order, and gen_list of the arguments m..k-1, in order, in slot m (the empty list
\* when k <= m); the frame has stack_size slots, slot m is one of them, and nothing is
\* written past the frame.
C20_VariadicFrame ==
  (last.op = "call" /\ ~Panicked /\ last.func.arg_count.t = "Variadic" /\ last.func.function_type.t = "Static"
     /\ Len(last.args) >= ArgCount_min(last.func.arg_count))
    => LET m == max_capped(last.func.arg_count)
           k == Len(last.args)
           Frame(en) == /\ Len(en.frame) = last.func.stack_size
                        /\ last.func.stack_size >= ArgCount_stack_size(last.func.arg_count)
                        /\ m < Len(en.frame)
                        /\ \A i \in 1..Min2(k, m) : en.frame[i] = last.args[i]
                        /\ en.frame[m + 1] = gen_list(SubSeq(last.args, m + 1, k))
                        /\ Len(engine.stack.cells) <= en.slice.off + en.slice.len
       IN Events("enter") # {} /\ Frame(EnteredFrame)

\* pack, with two fixed slots, has been called with 1, 2, 3 and has returned the list
\* of its third argument
C20_Witness ==
  /\ last.op = "call" /\ last.func = F_pack /\ last.args = <<Number(1), Number(2), Number(3)>>
  /\ last.res.ok /\ Raw(last.res.v, engine.heap) = List(<<Number(3)>>)

(***************************************************************************)
(* The slice pool (collection_pool.rs): SlicePool<T, C> with C = Rc<[T]>   *)
(* or Box<[T]>.  A slice is an allocation named by an id; strong is the    *)
(* number of Rc owners (1 for a Box, 0 for an id naming no allocation).    *)
(* No operation of the pool makes a Weak, so the weak count is 0.          *)
(***************************************************************************)
PoolBuckets == 100

MaxCache == 1

MaxHandles == 2

\* the capacities asked for: the empty slice, the last cached one, the first uncached one
Capacities == {0, PoolBuckets - 1, PoolBuckets}

\* T::default(), and the value the holders' iterators and generators supply
DefaultElem == 0

Elems(capacity) == [i \in 1..capacity |-> DefaultElem + 1]

MaxSlices == MaxHandles + MaxCache * Cardinality({c \in Capacities : c < PoolBuckets})

NoSlice == [data |-> <<>>, strong |-> 0]

with_max_cache_per(kind, max_cache_per) ==
  [kind |-> kind, pool |-> [i \in 1..PoolBuckets |-> <<>>], max_cache_per |-> max_cache_per,
   slices |-> [id \in 1..MaxSlices |-> NoSlice]]

\* Vec::get_mut(capacity): the bucket, if the pool tracks the capacity
Bucket(p, capacity) == IF capacity < Len(p.pool) THEN Some(capacity + 1) ELSE None

Poolable_capacity(p, id) == Len(p.slices[id].data)

\* the owner of id goes away; the allocation goes with its last owner
DropOwner(p, id) ==
  IF p.slices[id].strong = 1 THEN [p EXCEPT !.slices[id] = NoSlice]
  ELSE [p EXCEPT !.slices[id].strong = @ - 1]

\* insert with a fault: the length of the bucket is not looked at
SlicePool_insert_unbounded(p, id) ==
  LET b == Bucket(p, Poolable_capacity(p, id))
  IN IF b.some THEN [p EXCEPT !.pool[b.v] = Append(@, id)] ELSE DropOwner(p, id)

\* lines 177-183; the container is owned by the bucket or dropped at the end of insert
SlicePool_insert(p, id) ==
  LET b == Bucket(p, Poolable_capacity(p, id))
  IN IF b.some /\ Len(p.pool[b.v]) < p.max_cache_per
     THEN [p EXCEPT !.pool[b.v] = Append(@, id)]
     ELSE DropOwner(p, id)

\* Rc into_pool with a fault: the slice is cached whoever else holds it
Rc_into_pool_shared(p, id) == SlicePool_insert([p EXCEPT !.slices[id].strong = @ + 1], id)

\* lines 88-94: Rc<[T]>::into_pool
Rc_into_pool(p, id) ==
  IF p.slices[id].strong + 0 # 1 THEN p
  ELSE SlicePool_insert([p EXCEPT !.slices[id].strong = @ + 1], id)

\* lines 117-119: Box<[T]>::into_pool takes the slice out of the handle, which keeps
\* an empty slice without allocation
Box_into_pool(p, id) == SlicePool_insert(p, id)

\* lines 74-78: Drop for Pooled, and then the drop of its field collection
Pooled_drop(p, id) ==
  IF p.kind = "Rc" THEN DropOwner(Rc_into_pool(p, id), id) ELSE Box_into_pool(p, id)

FreshSlice(p) == CHOOSE id \in 1..MaxSlices : p.slices[id].strong = 0 /\ \A j \in 1..(id - 1) : p.slices[j].strong # 0

\* lines 96-102 and 121-127: with_capacity
Poolable_with_capacity(p, capacity) ==
  LET id == FreshSlice(p)
  IN [p |-> [p EXCEPT !.slices[id] = [data |-> [i \in 1..capacity |-> DefaultElem], strong |-> 1]], id |-> id, cached |-> FALSE]

\* request with a fault: the cached slice is handed out and stays in the cache
SlicePool_request_back(p, capacity) ==
  LET b == Bucket(p, capacity)
  IN IF b.some /\ p.pool[b.v] # <<>>
     THEN [p |-> [p EXCEPT !.slices[p.pool[b.v][Len(p.pool[b.v])]].strong = IF p.kind = "Rc" THEN @ + 1 ELSE @],
           id |-> p.pool[b.v][Len(p.pool[b.v])], cached |-> TRUE]
     ELSE Poolable_with_capacity(p, capacity)

\* lines 185-196: request
SlicePool_request(p, capacity) ==
  LET b == Bucket(p, capacity)
  IN IF b.some /\ p.pool[b.v] # <<>>
     THEN [p |-> [p EXCEPT !.pool[b.v] = SubSeq(@, 1, Len(@) - 1)], id |-> p.pool[b.v][Len(p.pool[b.v])], cached |-> TRUE]
     ELSE Poolable_with_capacity(p, capacity)

\* lines 104-109 and 129-131: populate; Rc::get_mut gives nothing on a shared slice
Poolable_populate(r, next, len) ==
  IF r.p.kind = "Rc"
  THEN IF r.p.slices[r.id].strong # 1 THEN [r EXCEPT !.id = 0]
       ELSE [r EXCEPT !.p.slices[r.id].data = [i \in 1..Len(@) |-> IF i <= len THEN next[i] ELSE @[i]]]
  ELSE [r EXCEPT !.p.slices[r.id].data = [i \in 1..Len(@) |-> next[i]]]

\* lines 198-209
from_pool(p, elems) == Poolable_populate(SlicePool_request(p, Len(elems)), elems, Len(elems))

\* lines 211-219; f is the generator of the constant v
from_pool_with_fn(p, capacity, v) == Poolable_populate(SlicePool_request(p, capacity), [i \in 1..capacity |-> v], capacity)

\* lines 28-35: Clone for Pooled; Rc::clone shares the slice, Box::clone copies it
Pooled_clone(p, id) ==
  IF p.kind = "Rc" THEN [p |-> [p EXCEPT !.slices[id].strong = @ + 1], id |-> id]
  ELSE LET c == FreshSlice(p) IN [p |-> [p EXCEPT !.slices[c] = p.slices[id]], id |-> c]

\* the handles the host holds: the slice of each and the request that made it
PoolPanicked == last.op \notin {"none", "clone", "drop"} /\ IsPanic(last.res)

FreshOrigin == CHOOSE o \in 1..(MaxHandles + 1) : \A i \in 1..Len(refs) : refs[i].origin # o

RECURSIVE Flatten(_, _)
Flatten(buckets, b) == IF b > Len(buckets) THEN <<>> ELSE buckets[b] \o Flatten(buckets, b + 1)

\* The names of the allocations and of the requests carry no meaning: they are
\* renumbered in the order in which the handles, then the buckets, meet them.
Rank(q, x) == IF \E i \in 1..Len(q) : q[i] = x
              THEN Cardinality({q[j] : j \in 1..((CHOOSE i \in 1..Len(q) : q[i] = x /\ \A k \in 1..(i - 1) : q[k] # x) - 1)}) + 1
              ELSE 0

Settle(p, hs, l) ==
  \E q \in {[i \in 1..Len(hs) |-> hs[i].slice] \o Flatten(p.pool, 1)} :
    \E rk \in {[id \in 0..MaxSlices |-> Rank(q, id)]}, o \in {[i \in 1..Len(hs) |-> hs[i].origin]} :
       /\ engine' = [p EXCEPT !.slices = [k \in 1..MaxSlices |-> IF \E id \in 1..MaxSlices : rk[id] = k
                                                                 THEN p.slices[CHOOSE id \in 1..MaxSlices : rk[id] = k]
                                                                 ELSE NoSlice],
                              !.pool = [b \in 1..Len(p.pool) |-> [i \in 1..Len(p.pool[b]) |-> rk[p.pool[b][i]]]]]
       /\ refs' = [i \in 1..Len(hs) |-> [slice |-> rk[hs[i].slice], origin |-> Rank(o, hs[i].origin)]]
       /\ last' = [l EXCEPT !.slice = rk[@]]

Handed(op, capacity, r) ==
  IF r.id = 0
  THEN /\ last' = [op |-> op, res |-> Panic("Non-unique rc slice in pool")]
       /\ UNCHANGED <<engine, refs>>
  ELSE Settle(r.p, Append(refs, [slice |-> r.id, origin |-> FreshOrigin]),
              [op |-> op, slice |-> r.id, cached |-> r.cached, capacity |-> capacity, res |-> Ok(r.p.slices[r.id].data)])

InitPool ==
  /\ engine \in {with_max_cache_per(kind, MaxCache) : kind \in {"Rc", "Box"}}
  /\ last = [op |-> "none"]
  /\ refs = <<>>

PoolRequest ==
  /\ ~PoolPanicked /\ Len(refs) < MaxHandles
  /\ \E capacity \in Capacities : Handed("request", capacity, SlicePool_request(engine, capacity))

PoolFromPool ==
  /\ ~PoolPanicked /\ Len(refs) < MaxHandles
  /\ \E capacity \in Capacities : Handed("from_pool", capacity, from_pool(engine, Elems(capacity)))

PoolFromPoolWithFn ==
  /\ ~PoolPanicked /\ Len(refs) < MaxHandles
  /\ \E capacity \in Capacities : Handed("from_pool_with_fn", capacity, from_pool_with_fn(engine, capacity, DefaultElem + 1))

PoolClone ==
  /\ ~PoolPanicked /\ Len(refs) < MaxHandles
  /\ \E h \in 1..Len(refs) :
       \E r \in {Pooled_clone(engine, refs[h].slice)} :
          Settle(r.p, Append(refs, [slice |-> r.id, origin |-> refs[h].origin]), [op |-> "clone", slice |-> r.id])

PoolDrop ==
  /\ ~PoolPanicked
  /\ \E h \in 1..Len(refs) :
       Settle(Pooled_drop(engine, refs[h].slice),
              [i \in 1..(Len(refs) - 1) |-> IF i < h THEN refs[i] ELSE refs[i + 1]],
              [op |-> "drop", slice |-> refs[h].slice, owners |-> engine.slices[refs[h].slice].strong, before |-> engine.slices[refs[h].slice].data,
               capacity |-> Poolable_capacity(engine, refs[h].slice),
               full |-> Bucket(engine, Poolable_capacity(engine, refs[h].slice)).some
                          /\ Len(engine.pool[Min2(Poolable_capacity(engine, refs[h].slice), PoolBuckets - 1) + 1]) >= engine.max_cache_per])

NextPool == PoolRequest \/ PoolFromPool \/ PoolFromPoolWithFn \/ PoolClone \/ PoolDrop

SpecPool == InitPool /\ [][NextPool]_vars

\* the slices in the cache
Cached == UNION {{engine.pool[b][i] : i \in 1..Len(engine.pool[b])} : b \in 1..Len(engine.pool)}

\* what the buckets hold
CachedData == [b \in 1..Len(engine.pool) |-> [i \in 1..Len(engine.pool[b]) |-> engine.slices[engine.pool[b][i]].data]]

\* C21: two live handles made by distinct request/from_pool calls never share a slice,
\* and no slice held by a live handle is in the cache.
C21_NoAliasing ==
  /\ \A i \in 1..Len(refs), j \in 1..Len(refs) : refs[i].slice = refs[j].slice => refs[i].origin = refs[j].origin
  /\ \A i \in 1..Len(refs) : refs[i].slice \notin Cached

\* a slice taken from the cache is held next to a handle of another request
C21_Witness ==
  /\ last.op \in {"request", "from_pool"} /\ last.cached
  /\ \E i \in 1..Len(refs) : refs[i].origin # refs[Len(refs)].origin /\ Poolable_capacity(engine, refs[i].slice) = last.capacity

\* what the holder gave to the operation
Supplied(op) == IF op = "request" THEN {} ELSE {DefaultElem + 1}

\* C22: what request, from_pool and from_pool_with_fn hand out holds nothing but
\* defaults and what the holder itself supplied.
C22_NoStaleValue ==
  (last.op \in {"request", "from_pool", "from_pool_with_fn"} /\ ~PoolPanicked)
    => \A i \in 1..Len(last.res.v) : last.res.v[i] \in {DefaultElem} \cup Supplied(last.op)

\* C23: the drop of a handle to an Rc slice caches the slice only if the handle was
\* its sole owner; with other owners the cache and the slice stay as they are; so
\* every cached slice has the cache as its only owner and populate never panics.
C23_SharedNotCached ==
  /\ [](engine.kind = "Rc" => /\ \A id \in Cached : engine.slices[id].strong = 1
                              /\ ~PoolPanicked)
  /\ [][(engine.kind = "Rc" /\ last'.op = "drop")
          => /\ last'.slice \in Cached' => last'.owners = 1
             /\ last'.owners > 1 => /\ CachedData' = CachedData
                                    /\ engine'.slices[last'.slice].data = last'.before
                                    /\ \E i \in 1..Len(refs') : refs'[i].slice = last'.slice]_vars

\* one of two handles to the same Rc slice has been dropped
C23_Witness == engine.kind = "Rc" /\ last.op = "drop" /\ last.owners = 2 /\ last.before # <<>>

\* C24: no bucket holds more than max_cache_per slices, there are at most 100 buckets,
\* every cached slice has the capacity of its bucket (so no slice of capacity 100 or
\* more is cached), request(cap) hands out a slice of cap slots, and a slice that is
\* not cached at the drop of its last handle is gone.
C24_CacheBounded ==
  /\ Len(engine.pool) <= 100
  /\ \A b \in 1..Len(engine.pool) :
       /\ Len(engine.pool[b]) <= engine.max_cache_per
       /\ \A i \in 1..Len(engine.pool[b]) : Poolable_capacity(engine, engine.pool[b][i]) = b - 1
  /\ (last.op = "request" /\ ~PoolPanicked) => Len(last.res.v) = last.capacity
  /\ \A id \in 1..MaxSlices : engine.slices[id].strong # 0 => (id \in Cached \/ \E i \in 1..Len(refs) : refs[i].slice = id)

\* a slice has been returned to a full bucket
C24_Witness == last.op = "drop" /\ last.owners = 1 /\ last.full /\ last.slice \notin Cached

\* a slice of capacity 100 has been dropped
C24_Oversized == last.op = "drop" /\ last.owners = 1 /\ last.capacity = PoolBuckets

(***************************************************************************)
(* The function table.                                                     *)
(***************************************************************************)
\* C25: the reference register_function returns has the number of functions
\* registered before it as its location; the table only grows at its end, so every
\* reference returned so far names the body it was made for; call and evaluate leave
\* the table as it is.
C25_TableOnlyGrows ==
  /\ [](\A i \in 1..Len(refs) : /\ refs[i].location < Len(engine.functions)
                                /\ engine.functions[refs[i].location + 1] = build(Program[i].w, Program[i].rt))
  /\ [][/\ Len(engine.functions) <= Len(engine'.functions)
        /\ SubSeq(engine'.functions, 1, Len(engine.functions)) = engine.functions
        /\ last'.op = "register_function" => last'.ref.location = Len(engine.functions)
        /\ last'.op \in {"call", "evaluate"} => engine'.functions = engine.functions]_vars

\* a function registered before the last one has been called after the last registration
C25_Witness ==
  /\ Len(engine.functions) = Len(Program)
  /\ last.op = "call" /\ last.func = refs[1] /\ last.res.ok

(***************************************************************************)
(* FunctionWriter (function_writer.rs): the offsets create_variable hands  *)
(* out, for every arity ArgCount::new and ArgCount::new_variadic build.    *)
(***************************************************************************)
MaxVariables == 2

InitFunctionWriter == engine = NoEngine /\ last = [op |-> "none"] /\ refs = [made |-> FALSE]

WriterMade(cfg, made, capture) ==
  /\ made.ok
  /\ refs' = [made |-> TRUE, cfg |-> cfg, offsets |-> <<>>, registered |-> FALSE,
              w |-> IF capture THEN new_capturing(made.v, <<Stack(0)>>) ELSE FunctionWriter_new(made.v)]
  /\ last' = [op |-> "FunctionWriter::new"]
  /\ UNCHANGED engine

NewFunctionWriter ==
  /\ ~refs.made
  /\ \E cfg \in Builds, start \in Bounds, end \in Bounds, capture \in BOOLEAN :
       WriterMade(cfg, ArgCount_new(cfg, start, end), capture)

NewVariadicFunctionWriter ==
  /\ ~refs.made
  /\ \E cfg \in Builds, start \in Bounds, end \in Bounds, capture \in BOOLEAN :
       /\ cfg.variadic_functions
       /\ WriterMade(cfg, ArgCount_new_variadic(cfg, start, end), capture)

\* the sums of create_variable and to_ref panic in a build with overflow checks
SumPanics(w) ==
  \/ w.args.t = "Variadic" /\ Overflows(w.args.max, 1)
  \/ Overflows(ArgCount_stack_size(w.args), w.variable_count)

CreateVariable ==
  /\ refs.made /\ ~refs.registered /\ last.op # "panic"
  /\ Len(refs.offsets) < MaxVariables
  /\ IF refs.cfg.overflow_checks /\ (SumPanics(refs.w) \/ Overflows(refs.w.variable_count, 1))
     THEN last' = [op |-> "panic", msg |-> "attempt to add with overflow"] /\ UNCHANGED refs
     ELSE /\ refs' = [refs EXCEPT !.w = create_variable(@), !.offsets = Append(@, CreatedVariable(refs.w))]
          /\ last' = [op |-> "create_variable", var |-> CreatedVariable(refs.w)]
  /\ UNCHANGED engine

\* register_function: to_ref, and the writer is consumed
RegisterWriter ==
  /\ refs.made /\ ~refs.registered /\ last.op # "panic"
  /\ IF refs.cfg.overflow_checks /\ SumPanics(refs.w)
     THEN last' = [op |-> "panic", msg |-> "attempt to add with overflow"] /\ UNCHANGED refs
     ELSE /\ refs' = [refs EXCEPT !.registered = TRUE]
          /\ last' = [op |-> "register_function", ref |-> to_ref(refs.w, 0)]
  /\ UNCHANGED engine

DropWriter ==
  /\ refs.made
  /\ refs' = [made |-> FALSE]
  /\ last' = [op |-> "none"]
  /\ UNCHANGED engine

NextFunctionWriter == NewFunctionWriter \/ NewVariadicFunctionWriter \/ CreateVariable \/ RegisterWriter \/ DropWriter

SpecFunctionWriter == InitFunctionWriter /\ [][NextFunctionWriter]_vars

\* C26: the offsets create_variable returns start at arg_count.stack_size(), above
\* every argument slot and the variadic tail slot, increase strictly, and are smaller
\* than the stack_size of the reference of the registered writer, which is
\* arg_count.stack_size() + variable_count.
C26_VariablesAboveArguments ==
  /\ last.op # "panic"
  /\ refs.made =>
       /\ \A i \in 1..Len(refs.offsets) :
            /\ i = 1 => refs.offsets[i] = ArgCount_stack_size(refs.w.args)
            /\ refs.offsets[i] > max_capped(refs.w.args) - (IF refs.w.args.t = "Variadic" THEN 0 ELSE 1)
            /\ \A j \in 1..(i - 1) : refs.offsets[j] < refs.offsets[i]
       /\ refs.registered =>
            /\ \A i \in 1..Len(refs.offsets) : refs.offsets[i] < last.ref.stack_size
            /\ last.ref.stack_size - refs.w.variable_count = ArgCount_stack_size(refs.w.args)

(***************************************************************************)
(* Return target ids and wrapped native functions.                         *)
(***************************************************************************)
Increasing(q) == \A i \in 1..Len(q), j \in 1..Len(q) : i < j => q[i] < q[j]

IncludedInOrder == \A i \in 1..Len(refs.included) : refs.included[i].location = i - 1

\* C28: a call of the reference returned by include_native_function(f, n) with the
\* arguments a0..a(n-1) invokes f once, with a slice of length n whose i-th element
\* is ai, and the result of the call is the result of f.
C28_NativeWrapper ==
  (refs.finished /\ last.op = "call" /\ ~Panicked)
    => /\ Cardinality(Events("native")) = 1
       /\ \A i \in Events("native") :
            /\ engine.log[i].func = last.native
            /\ engine.log[i].args = last.args
            /\ engine.log[i].out = last.res

\* nat_sum, included with two arguments, has been called with 1 and 2
C28_Witness ==
  /\ refs.finished /\ last.op = "call" /\ last.native = "nat_sum" /\ last.args = <<Number(1), Number(2)>>
  /\ last.res = Ok(Number(3 % NumMod))

\* the wrapped nat_fail has been called and has failed
C28_Failed == refs.finished /\ last.op = "call" /\ last.native = "nat_fail" /\ ~last.res.ok

(***************************************************************************)
(* The instruction VM: expressions are compiled to instructions            *)
(* (expression.rs) which an ExecutionContext runs (execution_context/).    *)
(* Its host is the test type system: values are plain, Null is the default *)
(* and the uninitialized value, and Add panics unless both are numbers.    *)
(***************************************************************************)
\* Location (location_identifiers.rs lines 15-19)
Location_Register(reg) == [loc |-> "Register", reg |-> reg]

Location_Addr(addr) == [loc |-> "Addr", addr |-> addr]

\* RegisterId::id (register_ids.rs lines 10-18)
RegisterId_Return == 0

RegisterId_RightOperand == 1

\* location_identifiers.rs line 4
HELD_VALUE_ADDRESS == 0

\* location_identifiers.rs line 2
HELD_VALUE == Location_Addr(HELD_VALUE_ADDRESS)

\* location_identifiers.rs line 6
RETURN_REGISTER == Location_Register(RegisterId_Return)

\* location_identifiers.rs line 8: the location named after the RightOperand
\* register is the Return register
RIGHT_OPERAND_REGISTER == Location_Register(RegisterId_Return)

\* Instruction (instruction.rs lines 16-111), the variants the compiler emits here
Instruction_SetRaw(location, value) == [op |-> "SetRaw", location |-> location, value |-> value]

Instruction_Move(from, to) == [op |-> "Move", from |-> from, to |-> to]

Instruction_Push(from) == [op |-> "Push", from |-> from]

Instruction_PushRaw(value) == [op |-> "PushRaw", value |-> value]

Instruction_UnaryOperation(operator) == [op |-> "UnaryOperation", operator |-> operator]

Instruction_BinaryOperationWithHeld(operator) == [op |-> "BinaryOperationWithHeld", operator |-> operator]

Instruction_Invoke(arg_count, stack_size, instruction) == [op |-> "Invoke", arg_count |-> arg_count, stack_size |-> stack_size, instruction |-> instruction]

Instruction_Return(stack_size) == [op |-> "Return", stack_size |-> stack_size]

Instruction_ReturnConstant(value, stack_size) == [op |-> "ReturnConstant", value |-> value, stack_size |-> stack_size]

\* Operand (expression.rs lines 10-22)
Operand_StaticFunctionCall(function, args) == [o |-> "StaticFunctionCall", function |-> function, args |-> args]

Operand_ValueRef(addr) == [o |-> "ValueRef", addr |-> addr]

Operand_ValueRaw(val) == [o |-> "ValueRaw", val |-> val]

Operand_Expression(builder) == [o |-> "Expression", builder |-> builder]

\* Expression (expression.rs lines 25-40)
Expression_UnaryOpEval(operand, operator) == [x |-> "UnaryOpEval", operand |-> operand, operator |-> operator]

Expression_BinaryOpEval(operator, right_operand, left_operand) == [x |-> "BinaryOpEval", operator |-> operator, right_operand |-> right_operand, left_operand |-> left_operand]

Expression_Eval(operand) == [x |-> "Eval", operand |-> operand]

\* FreightError::IncorrectArgumentCount of the instruction VM (expression.rs lines 72-75)
CountMismatch(expected, actual) == [err |-> "IncorrectArgumentCount", expected |-> expected, actual |-> actual]

RECURSIVE expand_function_args(_, _), expand_static_function_call_instructions(_, _, _), PushArgs(_, _, _)

\* expression.rs lines 47-61: the loop over the arguments, from the i-th on
PushArgs(instructions, args, i) ==
  IF i > Len(args) THEN Ok(instructions)
  ELSE IF args[i].o = "StaticFunctionCall"
       THEN LET called == expand_static_function_call_instructions(instructions, args[i].function, args[i].args)
            IN  IF ~called.ok THEN called
                ELSE PushArgs(Append(called.v, Instruction_Push(RETURN_REGISTER)), args, i + 1)
       ELSE IF args[i].o = "ValueRef"
            THEN PushArgs(Append(instructions, Instruction_Push(Location_Addr(args[i].addr))), args, i + 1)
            ELSE PushArgs(Append(instructions, Instruction_PushRaw(args[i].val)), args, i + 1)

\* expression.rs lines 42-63: the slot of the held value is pushed first, then the arguments
expand_function_args(instructions, args) == PushArgs(Append(instructions, Instruction_PushRaw(Default)), args, 1)

\* expression.rs lines 65-84
expand_static_function_call_instructions(instructions, function, args) ==
  IF Len(args) # function.arg_count
  THEN Err(CountMismatch(function.arg_count, Len(args)))
  ELSE LET pushed == expand_function_args(instructions, args)
       IN  IF ~pushed.ok THEN pushed
           ELSE Ok(Append(pushed.v, Instruction_Invoke(Len(args), function.stack_size, function.location)))

RECURSIVE expand_first_operand_instructions(_, _), expand_second_operand_instructions(_, _), build_instructions(_)

\* lines 118-124 and 144-150: a nested expression as an operand; its value is moved from
\* the Return register to the slot of the held value, for the second operand as well
ExpandNested(operand, instructions) ==
  LET built == build_instructions(operand.builder)
  IN  IF ~built.ok THEN built ELSE Ok(Append(instructions \o built.v, Instruction_Move(RETURN_REGISTER, HELD_VALUE)))

\* expression.rs lines 98-134
expand_first_operand_instructions(operand, instructions) ==
  IF operand.o = "StaticFunctionCall"
  THEN LET called == expand_static_function_call_instructions(instructions, operand.function, operand.args)
       IN  IF ~called.ok THEN called
           ELSE Ok(Append(called.v, Instruction_Move(RETURN_REGISTER, HELD_VALUE)))
  ELSE IF operand.o = "Expression" THEN ExpandNested(operand, instructions)
  ELSE IF operand.o = "ValueRef"
       THEN Ok(Append(instructions, Instruction_Move(Location_Addr(operand.addr), HELD_VALUE)))
       ELSE Ok(Append(instructions, Instruction_SetRaw(HELD_VALUE, operand.val)))

\* expression.rs lines 136-168
expand_second_operand_instructions(operand, instructions) ==
  IF operand.o = "StaticFunctionCall"
  THEN expand_static_function_call_instructions(instructions, operand.function, operand.args)
  ELSE IF operand.o = "Expression" THEN ExpandNested(operand, instructions)
  ELSE IF operand.o = "ValueRef"
       THEN Ok(Append(instructions, Instruction_Move(Location_Addr(operand.addr), RIGHT_OPERAND_REGISTER)))
       ELSE Ok(Append(instructions, Instruction_SetRaw(RIGHT_OPERAND_REGISTER, operand.val)))

\* expression.rs lines 171-204: Expression::build_instructions
build_instructions(expr) ==
  IF expr.x = "UnaryOpEval"
  THEN LET first == expand_first_operand_instructions(expr.operand, <<>>)
       IN  IF ~first.ok THEN first ELSE Ok(Append(first.v, Instruction_UnaryOperation(expr.operator)))
  ELSE IF expr.x = "BinaryOpEval"
       THEN LET first == expand_first_operand_instructions(expr.left_operand, <<>>)
            IN  IF ~first.ok THEN first
                ELSE LET second == expand_second_operand_instructions(expr.right_operand, first.v)
                     IN  IF ~second.ok THEN second
                         ELSE Ok(Append(second.v, Instruction_BinaryOperationWithHeld(expr.operator)))
       ELSE LET first == expand_first_operand_instructions(expr.operand, <<>>)
            IN  IF ~first.ok THEN first ELSE Ok(Append(first.v, Instruction_Move(HELD_VALUE, RETURN_REGISTER)))

\* FunctionBuilder of the instruction VM, the builder test_functions uses.  A
\* frame is the slot of the held value, then the arguments, then the variables:
\* the order expand_function_args pushes them in and do_invoke completes them.
FunctionBuilder_new(args) == [args |-> args, stack_size |-> args + 1, instructions |-> <<>>]

\* the frame offset of the arg-th argument, above the slot of the held value
FunctionBuilder_argument_stack_offset(b, arg) == arg + 1

\* the builder after create_variable; the offset returned is b.stack_size
FunctionBuilder_create_variable(b) == [b EXCEPT !.stack_size = @ + 1]

\* the expression is compiled and its value moved from the Return register to the variable
FunctionBuilder_assign_value(b, var, expr) ==
  [b EXCEPT !.instructions = @ \o Append(build_instructions(expr).v, Instruction_Move(RETURN_REGISTER, Location_Addr(var)))]

\* the expression is compiled, then the function returns
FunctionBuilder_return_expression(b, expr) ==
  [b EXCEPT !.instructions = @ \o Append(build_instructions(expr).v, Instruction_Return(b.stack_size))]

\* a function that does not end in a return returns the default value
FunctionBuilder_build_instructions(b) ==
  IF Len(b.instructions) > 0 /\ b.instructions[Len(b.instructions)].op \in {"Return", "ReturnConstant"}
  THEN b.instructions
  ELSE Append(b.instructions, Instruction_ReturnConstant(Default, b.stack_size))

\* VMWriter of the instruction VM: the functions' instructions in one vector
InstructionWriter_new == [instructions |-> <<>>]

\* the location of a function is the index of its first instruction, where Invoke jumps to
InstructionWriter_ref(w, b) == [arg_count |-> b.args, stack_size |-> b.stack_size, location |-> Len(w.instructions)]

InstructionWriter_include_function(w, b) == [w EXCEPT !.instructions = @ \o FunctionBuilder_build_instructions(b)]

\* execution_context/mod.rs lines 27-43: ExecutionContext::new
ExecutionContext_new(instructions, stack_size, entry_point) ==
  [stack |-> <<>>, initial_stack_size |-> stack_size, instructions |-> instructions, instruction |-> 0,
   frames |-> <<>>, call_stack |-> <<>>, frame |-> 0, registers |-> <<Null, Null, Null>>, entry_point |-> entry_point]

\* vm.rs lines 11-20 and finish: the VM runs the entry function in the initial frame
InstructionWriter_finish(w, main) == ExecutionContext_new(w.instructions, main.stack_size, main.location)

\* the outcome of one instruction: the context after it, whether the index is to
\* be incremented, or the panic that ended it
Executed(ctx, increment_index) == [ok |-> TRUE, ctx |-> ctx, increment_index |-> increment_index]

Unwound(ctx, msg) == [ok |-> FALSE, ctx |-> ctx, msg |-> msg]

\* tests/type_system.rs lines 117-126: Add panics unless both operands are numbers
TestBinaryOperator_apply_2(operator, a, b) ==
  IF operator = "Add" /\ a.k = "Number" /\ b.k = "Number" THEN Ok(Number(a.n + b.n)) ELSE Panic("Attempt to add non-integer type")

\* tests/type_system.rs lines 108-115
TestUnaryOperator_apply_1(operator, val) ==
  IF operator = "Inc" /\ val.k = "Number" THEN Ok(Number(val.n + 1)) ELSE Panic("Attempted to increment non-integer type")

\* mod.rs lines 53-59: stack[frame + offset] is inside the stack
InStack(ctx, offset) == ctx.frame + offset < Len(ctx.stack)

\* mod.rs lines 61-66: ExecutionContext::get
ExecutionContext_get(ctx, location) ==
  IF location.loc = "Register" THEN ctx.registers[location.reg + 1] ELSE ctx.stack[ctx.frame + location.addr + 1]

\* mod.rs lines 68-77: a write through get_mut / set
ExecutionContext_set(ctx, location, value) ==
  IF location.loc = "Register" THEN [ctx EXCEPT !.registers[location.reg + 1] = value]
  ELSE [ctx EXCEPT !.stack[ctx.frame + location.addr + 1] = value]

Addressable(ctx, location) == location.loc = "Register" \/ InStack(ctx, location.addr)

\* mod.rs lines 79-83: do_return; frames.pop().unwrap() panics in the initial frame
do_return(ctx, stack_size) ==
  IF Len(ctx.frames) = 0 \/ Len(ctx.call_stack) = 0 THEN Unwound(ctx, "unwrap on None")
  ELSE IF stack_size > Len(ctx.stack) THEN Unwound(ctx, "attempt to subtract with overflow")
  ELSE Executed([ctx EXCEPT !.frame = ctx.frames[Len(ctx.frames)],
                            !.frames = SubSeq(@, 1, Len(@) - 1),
                            !.instruction = ctx.call_stack[Len(ctx.call_stack)],
                            !.call_stack = SubSeq(@, 1, Len(@) - 1),
                            !.stack = SubSeq(@, 1, Len(@) - stack_size)], TRUE)

\* mod.rs lines 85-94: do_invoke; the arguments and the slot of the held value are
\* on the stack already, the rest of the frame is pushed
do_invoke(ctx, arg_count, stack_size, instruction) ==
  IF stack_size < arg_count + 1 \/ Len(ctx.stack) + (stack_size - arg_count - 1) < stack_size
  THEN Unwound(ctx, "attempt to subtract with overflow")
  ELSE Executed([ctx EXCEPT !.call_stack = Append(@, ctx.instruction),
                            !.frames = Append(@, ctx.frame),
                            !.instruction = instruction,
                            !.stack = @ \o [i \in 1..(stack_size - arg_count - 1) |-> Null],
                            !.frame = Len(ctx.stack) + (stack_size - arg_count - 1) - stack_size], FALSE)

\* mod.rs lines 139-152: Move takes the value out of a register and clones it from the stack
Moved(ctx, from, to) ==
  IF from.loc = "Register"
  THEN ExecutionContext_set([ctx EXCEPT !.registers[from.reg + 1] = Default], to, ctx.registers[from.reg + 1])
  ELSE ExecutionContext_set(ctx, to, ExecutionContext_get(ctx, from))

\* mod.rs lines 113-259: ExecutionContext::execute for the instruction ins
execute(ctx, ins) ==
  CASE ins.op = "SetRaw" ->
         IF Addressable(ctx, ins.location) THEN Executed(ExecutionContext_set(ctx, ins.location, ins.value), TRUE)
         ELSE Unwound(ctx, "index out of bounds")
    [] ins.op = "Move" ->
         IF Addressable(ctx, ins.from) /\ Addressable(ctx, ins.to) THEN Executed(Moved(ctx, ins.from, ins.to), TRUE)
         ELSE Unwound(ctx, "index out of bounds")
    [] ins.op = "PushRaw" -> Executed([ctx EXCEPT !.stack = Append(@, ins.value)], TRUE)
    [] ins.op = "Push" ->
         IF Addressable(ctx, ins.from) THEN Executed([ctx EXCEPT !.stack = Append(@, ExecutionContext_get(ctx, ins.from))], TRUE)
         ELSE Unwound(ctx, "index out of bounds")
    [] ins.op = "UnaryOperation" ->
         LET applied == TestUnaryOperator_apply_1(ins.operator, ctx.registers[RegisterId_Return + 1])
         IN  IF applied.ok THEN Executed([ctx EXCEPT !.registers[RegisterId_Return + 1] = applied.v], TRUE)
             ELSE Unwound(ctx, applied.err.msg)
    [] ins.op = "BinaryOperationWithHeld" ->
         IF ~InStack(ctx, HELD_VALUE_ADDRESS) THEN Unwound(ctx, "index out of bounds")
         ELSE LET applied == TestBinaryOperator_apply_2(ins.operator, ctx.stack[ctx.frame + HELD_VALUE_ADDRESS + 1], ctx.registers[RegisterId_RightOperand + 1])
              IN  IF applied.ok THEN Executed([ctx EXCEPT !.registers[RegisterId_Return + 1] = applied.v], TRUE)
                  ELSE Unwound(ctx, applied.err.msg)
    [] ins.op = "Invoke" -> do_invoke(ctx, ins.arg_count, ins.stack_size, ins.instruction)
    [] ins.op = "Return" -> do_return(ctx, ins.stack_size)
    [] ins.op = "ReturnConstant" -> do_return([ctx EXCEPT !.registers[RegisterId_Return + 1] = ins.value], ins.stack_size)

\* instruction.rs lines 145-148: Move of Instruction::execute takes the value out of
\* its source, a register or a stack slot, and writes it to its target
Taken(ctx, from, to) == ExecutionContext_set(ExecutionContext_set(ctx, from, Default), to, ExecutionContext_get(ctx, from))

\* instruction.rs lines 114-262: Instruction::execute, the executor kept with the
\* instructions; its other arms are those of ExecutionContext::execute
Instruction_execute(ins, ctx) ==
  IF ins.op = "Move"
  THEN IF Addressable(ctx, ins.from) /\ Addressable(ctx, ins.to) THEN Executed(Taken(ctx, ins.from, ins.to), TRUE)
       ELSE Unwound(ctx, "index out of bounds")
  ELSE execute(ctx, ins)

\* the two executors of the sources
Executors == {"ExecutionContext::execute", "Instruction::execute"}

\* the bodies of the two-argument function f the entry function calls
CalleeBodies == {"add", "first", "second", "const", "inc", "addraw", "addnested"}

\* the argument lists the entry function passes: f(x, y), f(y, x), f(x, f(x, y))
CallShapes == {"xy", "yx", "nested"}

\* tests/mod.rs lines 15-23: the function under test; add is the test's own body,
\* with the second argument as the left operand
CalleeExpression(body, a, b) ==
  CASE body = "add" -> Expression_BinaryOpEval("Add", Operand_ValueRef(a), Operand_ValueRef(b))
    [] body = "first" -> Expression_Eval(Operand_ValueRef(a))
    [] body = "second" -> Expression_Eval(Operand_ValueRef(b))
    [] body = "const" -> Expression_Eval(Operand_ValueRaw(Number(1)))
    [] body = "inc" -> Expression_UnaryOpEval(Operand_ValueRef(a), "Inc")
    [] body = "addraw" -> Expression_BinaryOpEval("Add", Operand_ValueRaw(Number(2)), Operand_ValueRaw(Number(1)))
    [] body = "addnested" -> Expression_BinaryOpEval("Add", Operand_Expression(Expression_Eval(Operand_ValueRef(b))), Operand_ValueRef(a))

CalleeBuilder(body) ==
  FunctionBuilder_return_expression(FunctionBuilder_new(2),
    CalleeExpression(body, FunctionBuilder_argument_stack_offset(FunctionBuilder_new(2), 0),
                           FunctionBuilder_argument_stack_offset(FunctionBuilder_new(2), 1)))

\* tests/mod.rs lines 38-41: the arguments of the call the entry function returns
CallArguments(shape, f, x, y) ==
  CASE shape = "xy" -> <<Operand_ValueRef(x), Operand_ValueRef(y)>>
    [] shape = "yx" -> <<Operand_ValueRef(y), Operand_ValueRef(x)>>
    [] shape = "nested" -> <<Operand_ValueRef(x), Operand_StaticFunctionCall(f, <<Operand_ValueRef(x), Operand_ValueRef(y)>>)>>

\* tests/mod.rs lines 25-42: main has the variables x and y, assigns them and returns f(..)
MainBuilder(shape, f, xv, yv) ==
  LET declared == FunctionBuilder_create_variable(FunctionBuilder_create_variable(FunctionBuilder_new(0)))
      x == FunctionBuilder_new(0).stack_size
      y == FunctionBuilder_create_variable(FunctionBuilder_new(0)).stack_size
      assigned == FunctionBuilder_assign_value(FunctionBuilder_assign_value(declared, x, Expression_Eval(Operand_ValueRaw(Number(xv)))),
                                               y, Expression_Eval(Operand_ValueRaw(Number(yv))))
  IN  FunctionBuilder_return_expression(assigned, Expression_Eval(Operand_StaticFunctionCall(f, CallArguments(shape, f, x, y))))

\* tests/mod.rs lines 14-44: the program is written and the VM built
TestProgram(body, shape, xv, yv) ==
  LET f == InstructionWriter_ref(InstructionWriter_new, CalleeBuilder(body))
      included == InstructionWriter_include_function(InstructionWriter_new, CalleeBuilder(body))
      main == InstructionWriter_ref(included, MainBuilder(shape, f, xv, yv))
  IN  [f |-> f, main |-> main,
       context |-> InstructionWriter_finish(InstructionWriter_include_function(included, MainBuilder(shape, f, xv, yv)), main)]

InitVM ==
  \E body \in CalleeBodies, shape \in CallShapes, xv \in 0..(NumMod - 1), yv \in 0..(NumMod - 1), executor \in Executors :
    /\ refs = [body |-> body, shape |-> shape, x |-> xv, y |-> yv, executor |-> executor,
               f |-> TestProgram(body, shape, xv, yv).f, main |-> TestProgram(body, shape, xv, yv).main]
    /\ engine = [context |-> TestProgram(body, shape, xv, yv).context, status |-> "built", calls |-> <<>>]
    /\ last = [op |-> "none"]

\* vm.rs lines 26-27 with mod.rs lines 100-104: run starts at the entry point in
\* a stack of initial_stack_size uninitialized values
VMRun ==
  /\ engine.status = "built"
  /\ engine' = [engine EXCEPT !.status = "running",
                              !.context.instruction = engine.context.entry_point,
                              !.context.stack = [i \in 1..engine.context.initial_stack_size |-> Null]]
  /\ last' = [op |-> "run"]
  /\ UNCHANGED refs

\* the calls entered and not yet returned from, with the length the stack had
\* before the caller pushed the slot of the held value and the arguments
Entered(ins, ctx, calls) ==
  IF ins.op = "Invoke"
  THEN Append(calls, [base |-> Len(ctx.stack) - ins.arg_count - 1, frame |-> ctx.frame, at |-> ctx.instruction])
  ELSE IF ins.op \in {"Return", "ReturnConstant"} THEN SubSeq(calls, 1, Len(calls) - 1) ELSE calls

Stepped(ins, r) ==
  /\ engine' = [engine EXCEPT !.context = IF r.ok /\ r.increment_index THEN [r.ctx EXCEPT !.instruction = @ + 1] ELSE r.ctx,
                              !.status = IF r.ok THEN "running" ELSE "panic",
                              !.calls = IF r.ok THEN Entered(ins, engine.context, @) ELSE @]
  /\ last' = IF ~r.ok THEN [op |-> ins.op, ok |-> FALSE, msg |-> r.msg]
             ELSE IF ins.op \in {"Return", "ReturnConstant"}
                  THEN [op |-> ins.op, ok |-> TRUE, call |-> engine.calls[Len(engine.calls)]]
                  ELSE [op |-> ins.op, ok |-> TRUE]

\* vm.rs line 28 with mod.rs lines 105-109: the next instruction is executed;
\* past the last instruction the run is complete (vm.rs line 29)
ExecuteNext ==
  /\ engine.status = "running"
  /\ IF engine.context.instruction < Len(engine.context.instructions)
     THEN \E r \in {IF refs.executor = "Instruction::execute" THEN Instruction_execute(engine.context.instructions[engine.context.instruction + 1], engine.context)
                      ELSE execute(engine.context, engine.context.instructions[engine.context.instruction + 1])} :
            Stepped(engine.context.instructions[engine.context.instruction + 1], r)
     ELSE /\ engine' = [engine EXCEPT !.status = "done"]
          /\ last' = [op |-> "done", res |-> Ok(engine.context.registers[RegisterId_Return + 1])]
  /\ UNCHANGED refs

NextVM == VMRun \/ ExecuteNext

SpecVM == InitVM /\ [][NextVM]_vars

\* what f denotes on the arguments a and b
Denote(body, a, b) ==
  CASE body = "add" -> a + b
    [] body = "first" -> a
    [] body = "second" -> b
    [] body = "const" -> 1
    [] body = "inc" -> a + 1
    [] body = "addraw" -> 3
    [] body = "addnested" -> a + b

\* the value of the call the entry function returns
Expected ==
  CASE refs.shape = "xy" -> Denote(refs.body, refs.x, refs.y)
    [] refs.shape = "yx" -> Denote(refs.body, refs.y, refs.x)
    [] refs.shape = "nested" -> Denote(refs.body, refs.x, Denote(refs.body, refs.x, refs.y))

RunEnded == engine.status \in {"done", "panic"}

\* C29: the run of an entry function that assigns its variables and returns the
\* static call f(x, y) completes with Ok, and the Return register then holds the
\* value of f on the arguments in the order they were passed.
C29_ReturnsCallValue ==
  RunEnded => /\ engine.status = "done"
              /\ engine.context.registers[RegisterId_Return + 1] = Number(Expected)

\* a return from a call has left the stack as it was before the caller pushed the
\* slot of the held value and the arguments, in the caller's frame, at the
\* instruction after the Invoke
InvokeReturnPaired ==
  (engine.status = "running" /\ last.op \in {"Return", "ReturnConstant"})
    => /\ Len(engine.context.stack) = last.call.base
       /\ engine.context.frame = last.call.frame
       /\ engine.context.instruction = last.call.at + 1

\* C30: when the run completes the stack holds the frame of the entry function
\* and nothing else, every Invoke/Return pair having removed the frame of the
\* callee, restored the frame of the caller and resumed after the Invoke.
C30_EntryFrameRemains ==
  /\ InvokeReturnPaired
  /\ RunEnded => /\ engine.status = "done"
                 /\ Len(engine.context.stack) = refs.main.stack_size
                 /\ engine.context.frame = 0
                 /\ engine.context.frames = <<>>

\* the run of a program that calls the test's add has ended in the callee
AddPanicked ==
  /\ engine.status = "panic" /\ refs.body = "add" /\ last.op = "BinaryOperationWithHeld"
  /\ engine.context.registers[RegisterId_RightOperand + 1] = Null

\* a run has come to the Return of the entry function with the value of the call in
\* the Return register and the frame of the entry function on the stack
EntryReturnPanicked ==
  /\ engine.status = "panic" /\ last.op = "Return" /\ engine.context.frames = <<>>
  /\ Len(engine.context.stack) = refs.main.stack_size
  /\ engine.context.registers[RegisterId_Return + 1] = Number(Expected)

\* no run completes: it ends in a panic, in the callee or at the entry function's Return
NoRunCompletes == engine.status # "done"

(***************************************************************************)
(* The slice of a native call's arguments.                                 *)
(***************************************************************************)
\* the host evaluates NativeFunctionCall(f, args)
NativeEvaluated == last.op = "evaluate" /\ last.expr.op = "NativeFunctionCall"

\* C31: evaluating NativeFunctionCall(f, args) releases the slice of the arguments on
\* every exit path (a value, an error of f, an argument that fails or raises Return):
\* the base of the stack pool is afterwards what it was before the evaluation.
C31_NativeSliceReleased == [][(NativeEvaluated' /\ ~Panicked') => engine'.stack.base = engine.stack.base]_vars

\* the path that does release: every argument evaluated and f returned a value
C31_ReleasedOnValue == [][(NativeEvaluated' /\ last'.res.ok) => engine'.stack.base = engine.stack.base]_vars

\* an argument raised Return and the slice of two cells stayed acquired
C31_LeakedOnReturn == NativeEvaluated /\ ~last.res.ok /\ last.res.err.err = "Return" /\ engine.stack.base >= 2

(***************************************************************************)
(* return_value between the Return that stores it and the catch.           *)
(***************************************************************************)
\* the catches of the trace: a ReturnTarget that met a Return of its own target, and
\* the end of an activation one of whose expressions raised the function's return_target
TargetCatches == {j \in Events("ReturnTarget") : IsReturn(engine.log[j].inner) /\ engine.log[j].inner.err.target = engine.log[j].target}

BoundaryCatches == {j \in Events("exit") : \E i \in Events("expr") : i < j /\ engine.log[i].act = engine.log[j].act /\ IsReturn(engine.log[i].res) /\ engine.log[i].res.err.target = engine.log[i].rt}

\* every catch yields the value stored by the last Return before it and leaves
\* return_value at the default
CatchTakesStored == \A j \in TargetCatches \cup BoundaryCatches : RaisedBefore(j) /\ engine.log[j].out = Ok(StoredBefore(j)) /\ engine.log[j].return_value = Default

\* the original statement: the catcher receives the value stored by the Return, and
\* return_value is the default whenever no Return is in flight
C32_NonDefaultOnlyInFlight == (Returned /\ ~Panicked) => (CatchTakesStored /\ (~IsReturn(last.res) => engine.return_value = Default))

\* C32: the catcher of a Return receives the value that Return stored, and the catch
\* resets return_value to the default.  An operation that ends with an uncaught Return
\* leaves the stored value in return_value, an operation in which no Return is evaluated
\* leaves return_value as it found it, and every other operation leaves the default.
C32_ReturnValueInFlight ==
  [][(Returned' /\ ~Panicked') =>
       /\ CatchTakesStored'
       /\ IsReturn(last'.res) => engine'.return_value = StoredBefore(Len(engine.log) + 1)'
       /\ (~IsReturn(last'.res) /\ Events("raise")' # {}) => engine'.return_value = Default
       /\ Events("raise")' = {} => engine'.return_value = engine.return_value]_vars

\* a Return that stored a value other than the default was caught by a ReturnTarget,
\* and the operation has returned a value with return_value at the default
C32_Witness == Returned /\ last.res.ok /\ TargetCatches # {} /\ engine.return_value = Default /\ \E i \in Events("raise") : engine.log[i].v # Default

\* an evaluation without any Return has ended and return_value holds a value
C32_StaleAfterUncaught == Returned /\ last.res.ok /\ Events("raise") = {} /\ engine.return_value # Default

(***************************************************************************)
(* The frame a function body starts with.                                  *)
(***************************************************************************)
\* the marshalling that filled the frame the activation of event j entered with
FillOf(j) == CHOOSE i \in Events("fill") : i < j /\ engine.log[i].slice = engine.log[j].slice /\ \A k \in Events("fill") : (k < j /\ engine.log[k].slice = engine.log[j].slice) => k <= i

\* the slots (from 0) past the supplied arguments: unfilled optional arguments and
\* local variables, not the list of a Variadic arity
RestSlots(fill) == {k \in fill.from..(fill.slice.len - 1) : ~(fill.variadic /\ k = fill.list)}

\* a handle to a cell made after the marshalling of the arguments, holding null
FreshUninitialized(j, k) == engine.log[j].slots[k + 1].k = "Ref" /\ engine.log[j].slots[k + 1].cell > engine.log[FillOf(j)].heap /\ engine.log[j].frame[k + 1] = Null

LastRaise(j) == CHOOSE i \in Events("raise") : i < j /\ \A k \in Events("raise") : k < j => k <= i

\* the ReturnTarget expressions of target t and the activations of functions whose
\* return_target is t that completed after position i of the trace: while a Return is
\* propagating these are the constructs enclosing it, innermost first
Enclosing(t, i) == {j \in Events("ReturnTarget") : j > i /\ engine.log[j].target = t} \cup {j \in Events("exit") : j > i /\ engine.log[j].rt = t}

\* C34: when return target t is live in several nested activations (functions whose
\* return_target is t, nested ReturnTarget(t, _)), a Return{t} is caught by the innermost
\* enclosing one, which yields the value stored; no outer one catches that signal, and
\* the outer ones continue with the inner one's result.
C34_InnermostCatches ==
  (Returned /\ ~Panicked) =>
    /\ \A i \in Events("raise") :
         \A j \in Enclosing(engine.log[i].target, i) :
           (\A k \in Enclosing(engine.log[i].target, i) : j <= k) => engine.log[j].out = Ok(engine.log[i].v)
    /\ \A k \in TargetCatches \cup BoundaryCatches :
         /\ RaisedBefore(k)
         /\ \A j \in Enclosing(engine.log[LastRaise(k)].target, LastRaise(k)) : k <= j
    /\ (last.op = "evaluate" /\ last.expr \in NestedTargets) => last.res = Ok(Number(3))
    /\ (last.op = "call" /\ last.func = F_over /\ last.args = <<>>) => last.res = Ok(Number(2))

\* over and early, both with return target 2, were live when early raised Return{2}:
\* early caught it and over went on to add 1 to its result
C34_Witness ==
  /\ last.op = "call" /\ last.func = F_over /\ last.args = <<>> /\ last.res = Ok(Number(2))
  /\ \E i \in Events("raise") : \E j, k \in Events("exit") :
       /\ i < j /\ j < k
       /\ engine.log[i].target = 2 /\ engine.log[j].rt = 2 /\ engine.log[k].rt = 2
       /\ j \in BoundaryCatches
       /\ engine.log[k].act < engine.log[j].act

\* ReturnTarget(0, _) inside ReturnTarget(0, _): the inner one caught the Return of 1 and
\* the outer one added 2
C34_NestedTargets == last.op = "evaluate" /\ last.expr \in NestedTargets /\ last.res = Ok(Number(3)) /\ \E j, k \in Events("ReturnTarget") : j < k /\ j \in TargetCatches /\ k \notin TargetCatches

(***************************************************************************)
(* The argument count is validated before the arguments are evaluated.     *)
(***************************************************************************)
\* C35: for StaticFunctionCall and DynamicFunctionCall the argument count is validated
\* before any argument expression is evaluated: with a count the arity rejects the call
\* fails with IncorrectArgumentCount and nothing of the arguments has happened (no
\* assignment, no Return, no call; globals, heap and return_value are as before).  With
\* a valid count the arguments are evaluated in the caller's frame: pass(1) = add(2, a)
\* adds the caller's slot 0, not slot 0 of the frame being filled.
C35_CountBeforeArguments ==
  [][/\ (last'.op = "evaluate" /\ last'.expr \in MiscountedCalls /\ ~Panicked')
          => /\ ~last'.res.ok
             /\ last'.res.err.err = "IncorrectArgumentCount"
             /\ last'.res.err.actual = Len(last'.expr.args)
             /\ \A i \in 1..Len(engine'.log) : engine'.log[i].ev \in {"request", "leave"}
             /\ [engine' EXCEPT !.stack.base = engine.stack.base, !.log = engine.log] = engine
     /\ (last'.op = "call" /\ last'.func = F_pass /\ last'.args = <<Number(1)>>) => last'.res = Ok(Number(3))]_vars

\* add was called with three arguments that assign, raise Return and call: the call
\* failed on the count and global 0 is still unset
C35_Witness ==
  /\ last.op = "evaluate"
  /\ last.expr = StaticFunctionCall(F_add, Effects(3))
  /\ last.res = Err(IncorrectArgumentCount(2, Some(2), 3))
  /\ Len(engine.globals) > 0 /\ GlobalPayloads(engine)[1] = Null
  /\ Events("assign") = {} /\ Events("raise") = {}

\* pass(1) has returned 2 + 1
C35_CallerFrame == last.op = "call" /\ last.func = F_pass /\ last.args = <<Number(1)>> /\ last.res = Ok(Number(3))

(***************************************************************************)
(* The slices in use by live calls.                                        *)
(***************************************************************************)
\* the requests whose call was still running at position j of the trace
InUse(j) == {i \in Events("request") : i <= j /\ ~\E k \in Events("leave") : k <= j /\ engine.log[k].request = i}

Disjoint(s, t) == s.off + s.len <= t.off \/ t.off + t.len <= s.off

\* C36: at every request and every return of a call and of a native call, the slices
\* in use (the frames of the calls that are running, the argument slices of the native
\* calls that are running) are pairwise disjoint and lie below base; so a nested call,
\* made while the arguments of an enclosing call are evaluated or after an earlier call
\* failed, gets storage that overlaps no frame in use.
C36_SlicesDisjoint ==
  (Returned /\ ~Panicked) =>
    \A j \in Events("request") \cup Events("leave") :
      \A i \in InUse(j) :
        /\ engine.log[i].slice.off + engine.log[i].slice.len <= engine.log[j].base
        /\ \A k \in InUse(j) : k # i => Disjoint(engine.log[i].slice, engine.log[k].slice)

\* add(set(global0), global0 := 1) evaluated after a failed call left its frame
\* acquired: the frame of set was requested while the frame of add, above the one left
\* behind, was in use for the arguments
C36_Witness ==
  /\ last.op = "evaluate"
  /\ last.expr = StaticFunctionCall(F_add, <<SetGlobal, AssignGlobal(0, RawValue(Number(1)))>>)
  /\ last.res.ok
  /\ \E i, j \in Events("request") :
       /\ i < j
       /\ i \in InUse(j)
       /\ engine.log[i].slice.off > 0
       /\ engine.log[i].slice.len = 2 /\ engine.log[j].slice.len = 1
       /\ engine.log[j].slice.off = engine.log[i].slice.off + 2

(***************************************************************************)
(* reset_globals and the addresses create_global returned.                 *)
(***************************************************************************)
\* C37: reset_globals changes only the contents of the global cells: every address
\* create_global returned is still an address of a global, whose cell is uninitialized,
\* and there are as many globals as before the reset.
C37_ResetKeepsAddresses ==
  [][last'.op = "reset_globals" =>
       /\ Len(engine'.globals) = Len(engine.globals)
       /\ \A a \in engine.handed : a < Len(engine'.globals) /\ GlobalPayloads(engine')[a + 1] = Null]_vars

\* what reset_globals does leave: num_globals cells, each uninitialized, whatever
\* create_global added
C37_ResetToNumGlobals ==
  [][last'.op = "reset_globals" =>
       /\ Len(engine'.globals) = engine.num_globals
       /\ engine'.num_globals = engine.num_globals
       /\ \A a \in 1..Len(engine'.globals) : GlobalPayloads(engine')[a] = Null]_vars

\* two globals were created and reset_globals has left none
C37_GlobalsGone == last.op = "reset_globals" /\ engine.handed = {0, 1} /\ engine.globals = <<>>

(***************************************************************************)
(* StackLayout (function/function_ref.rs): a u128 with one bit per slot.   *)
(* The layout is kept as the default of its constructor and the bits that  *)
(* differ from it; engine is the layout with the build it runs under, refs *)
(* the most recent marking of every slot (the constructor's default where  *)
(* none was made).                                                         *)
(***************************************************************************)
\* the slots the host marks and asks for: the first and the last bit of the word, and
\* the slots one word above them
LayoutSlots == {0, LayoutBits - 1, LayoutBits, 2 * LayoutBits - 1}

\* the frames marshalled: one slot, one slot per bit, one slot more than there are bits
FrameSizes == {1, LayoutBits, LayoutBits + 1}

\* 1 << slot on a u128: the bit that is set; a shift by the width or more panics in a
\* build with overflow checks and wraps to slot mod 128 in a build without
Shl(cfg, slot) == IF slot >= LayoutBits THEN (IF cfg.overflow_checks THEN Panic("attempt to shift left with overflow") ELSE Ok(slot % LayoutBits)) ELSE Ok(slot)

\* the layout with one bit set, or cleared
WithBit(layout, bit, on) == [layout EXCEPT !.except = IF layout.all = on THEN @ \ {bit} ELSE @ \cup {bit}]

\* StackLayout::set_alloc: self.0 |= 1 << slot
StackLayout_set_alloc(cfg, layout, slot) == IF ~Shl(cfg, slot).ok THEN Shl(cfg, slot) ELSE Ok(WithBit(layout, Shl(cfg, slot).v, TRUE))

\* StackLayout::set_stack: self.0 &= !(1 << slot)
StackLayout_set_stack(cfg, layout, slot) == IF ~Shl(cfg, slot).ok THEN Shl(cfg, slot) ELSE Ok(WithBit(layout, Shl(cfg, slot).v, FALSE))

\* StackLayout::is_alloc: (self.0 & (1 << slot)) != 0
StackLayout_is_alloc(cfg, layout, slot) == IF ~Shl(cfg, slot).ok THEN Shl(cfg, slot) ELSE Ok(is_alloc(layout, slot))

\* call_internal, lines 149-165: one lookup per slot of the frame, the arguments first
\* (the first lookup that fails ends it)
LayoutLookups(cfg, layout, stack_size) ==
  LET failing == {i \in 0..(stack_size - 1) : ~StackLayout_is_alloc(cfg, layout, i).ok}
  IN IF failing = {} THEN Ok(stack_size)
     ELSE StackLayout_is_alloc(cfg, layout, CHOOSE i \in failing : \A j \in failing : i <= j)

InitLayout ==
  /\ \E overflow_checks \in BOOLEAN, layout \in {all_alloc, no_alloc} :
       /\ engine = [layout |-> layout, cfg |-> [variadic_functions |-> FALSE, overflow_checks |-> overflow_checks]]
       /\ refs = [slot \in LayoutSlots |-> layout.all]
  /\ last = [op |-> "none"]

Marked(op, slot, on, r) ==
  /\ last' = [op |-> op, slot |-> slot, res |-> IF r.ok THEN Ok(Default) ELSE r]
  /\ engine' = IF r.ok THEN [engine EXCEPT !.layout = r.v] ELSE engine
  /\ refs' = IF r.ok THEN [refs EXCEPT ![slot] = on] ELSE refs

SetAlloc == Idle /\ \E slot \in LayoutSlots : Marked("set_alloc", slot, TRUE, StackLayout_set_alloc(engine.cfg, engine.layout, slot))

SetStack == Idle /\ \E slot \in LayoutSlots : Marked("set_stack", slot, FALSE, StackLayout_set_stack(engine.cfg, engine.layout, slot))

IsAlloc ==
  /\ Idle
  /\ \E slot \in LayoutSlots : last' = [op |-> "is_alloc", slot |-> slot, res |-> StackLayout_is_alloc(engine.cfg, engine.layout, slot)]
  /\ UNCHANGED <<engine, refs>>

\* the marshalling of a frame of stack_size slots for a function of this layout
MarshalFrame ==
  /\ Idle
  /\ \E stack_size \in FrameSizes : last' = [op |-> "marshal", stack_size |-> stack_size, res |-> LayoutLookups(engine.cfg, engine.layout, stack_size)]
  /\ UNCHANGED <<engine, refs>>

\* a panic ends the run
DropLayoutResult ==
  /\ ~Idle
  /\ ~IsPanic(last.res)
  /\ last' = [op |-> "none"]
  /\ UNCHANGED <<engine, refs>>

NextLayout == SetAlloc \/ SetStack \/ IsAlloc \/ MarshalFrame \/ DropLayoutResult

SpecLayout == InitLayout /\ [][NextLayout]_vars

\* C38: for every slot of a frame, the slots from 128 on included, is_alloc is well
\* defined and answers with the most recent set_alloc or set_stack of that slot (the
\* constructor's default where there was none); marking a slot changes the answer of
\* no other slot, and the lookups of a marshalling never fail.
C38_IsAllocPerSlot ==
  /\ ~Idle => ~IsPanic(last.res)
  /\ last.op = "is_alloc" => last.res = Ok(refs[last.slot])

\* what holds with overflow checks, where no slot from 128 on is ever marked: an
\* is_alloc that answers, answers with the most recent marking of the slot
C38_CheckedAnswer == (engine.cfg.overflow_checks /\ last.op = "is_alloc" /\ last.res.ok) => last.res = Ok(refs[last.slot])

\* without overflow checks: slot 128 was marked as a stack slot on a layout of
\* reference slots, slot 0 was never marked, and is_alloc(0) answers false
C38_Aliased == ~engine.cfg.overflow_checks /\ engine.layout.all /\ last.op = "is_alloc" /\ last.slot = 0 /\ refs[0] /\ ~refs[LayoutBits] /\ last.res = Ok(FALSE)

\* with overflow checks: the marshalling of a frame of 129 slots has panicked on the
\* lookup of slot 128
C38_LookupPanicked == engine.cfg.overflow_checks /\ last.op = "marshal" /\ last.stack_size = LayoutBits + 1 /\ IsPanic(last.res)

(***************************************************************************)
(* BinaryOpEval of the instruction VM.                                     *)
(***************************************************************************)
RECURSIVE OperandValue(_, _)

\* the value of an operand of the body in the frame that is running: a stack
\* reference, a raw value, a nested Eval
OperandValue(operand, ctx) ==
  CASE operand.o = "ValueRef" -> ctx.stack[ctx.frame + operand.addr + 1]
    [] operand.o = "ValueRaw" -> operand.val
    [] operand.o = "Expression" -> OperandValue(operand.builder.operand, ctx)

\* the body of f, where it is a BinaryOpEval
CalleeBinary == CalleeExpression(refs.body, FunctionBuilder_argument_stack_offset(FunctionBuilder_new(2), 0), FunctionBuilder_argument_stack_offset(FunctionBuilder_new(2), 1))

\* C39: for every BinaryOpEval{operator, left_operand, right_operand}, whatever the
\* kind of the operands, the instructions built leave operator.apply_2(left, right) in
\* the Return register: BinaryOperationWithHeld finds the left value in the slot of the
\* held value and the right value in the RightOperand register.
C39_BinaryOpInReturn ==
  last.op = "BinaryOperationWithHeld" =>
    /\ last.ok
    /\ Ok(engine.context.registers[RegisterId_Return + 1]) = TestBinaryOperator_apply_2(CalleeBinary.operator, OperandValue(CalleeBinary.left_operand, engine.context), OperandValue(CalleeBinary.right_operand, engine.context))

\* BinaryOperationWithHeld has panicked with the left value in the slot of the held
\* value, the right value in the Return register and nothing in the RightOperand register
C39_RightInReturn ==
  /\ last.op = "BinaryOperationWithHeld" /\ ~last.ok
  /\ refs.body = "add" /\ refs.x # refs.y
  /\ engine.context.stack[engine.context.frame + HELD_VALUE_ADDRESS + 1] = OperandValue(CalleeBinary.left_operand, engine.context)
  /\ engine.context.registers[RegisterId_Return + 1] = OperandValue(CalleeBinary.right_operand, engine.context)
  /\ engine.context.registers[RegisterId_RightOperand + 1] = Null

\* the nested right operand has overwritten the held left value: the slot of the held
\* value holds the right value when BinaryOperationWithHeld panics
C39_HeldOverwritten ==
  /\ last.op = "BinaryOperationWithHeld" /\ ~last.ok
  /\ refs.body = "addnested" /\ refs.shape = "xy" /\ refs.x # refs.y
  /\ engine.context.stack[engine.context.frame + HELD_VALUE_ADDRESS + 1] = OperandValue(CalleeBinary.right_operand, engine.context)
  /\ engine.context.stack[engine.context.frame + HELD_VALUE_ADDRESS + 1] # OperandValue(CalleeBinary.left_operand, engine.context)

\* no BinaryOperationWithHeld completes: the RightOperand register is never written
C39_NeverApplied == last.op = "BinaryOperationWithHeld" => ~last.ok

(***************************************************************************)
(* Move of the instruction VM.                                             *)
(***************************************************************************)
\* the instruction the step executes
Executing == engine.context.instructions[engine.context.instruction + 1]

MoveExecuted == engine.status = "running" /\ engine.context.instruction < Len(engine.context.instructions) /\ Executing.op = "Move" /\ engine'.status = "running"

\* the locations of the frame that is running and the registers
Locations(ctx) == {Location_Register(r) : r \in 0..(Len(ctx.registers) - 1)} \cup {Location_Addr(a) : a \in 0..(Len(ctx.stack) - ctx.frame - 1)}

\* what Move{from, to} is to leave: to holds the value, a register source is null, a
\* stack source keeps its value, and nothing else has changed
MoveEffect(before, after, from, to) ==
  /\ ExecutionContext_get(after, to) = ExecutionContext_get(before, from)
  /\ from # to => ExecutionContext_get(after, from) = IF from.loc = "Register" THEN Default ELSE ExecutionContext_get(before, from)
  /\ \A l \in Locations(before) \ {from, to} : ExecutionContext_get(after, l) = ExecutionContext_get(before, l)
  /\ Len(after.stack) = Len(before.stack) /\ after.frame = before.frame
  /\ \A i \in 1..before.frame : after.stack[i] = before.stack[i]

\* C40: Move{from, to} with a register source takes the value and leaves the register
\* null; with a stack source it clones the value and the slot keeps it; to receives
\* the value and no other location changes.
C40_MoveTakesOrClones == [][MoveExecuted => MoveEffect(engine.context, engine'.context, Executing.from, Executing.to)]_vars

\* the Move of ExecutionContext::execute does so
C40_ContextMove == [][(MoveExecuted /\ refs.executor = "ExecutionContext::execute") => MoveEffect(engine.context, engine'.context, Executing.from, Executing.to)]_vars

\* the Move of Instruction::execute has moved the first argument of f to the slot of
\* the held value and left the argument's slot null
C40_StackSourceTaken ==
  /\ refs.executor = "Instruction::execute" /\ refs.body = "first"
  /\ last.op = "Move" /\ last.ok
  /\ Len(engine.calls) = 1
  /\ engine.context.stack[engine.context.frame + HELD_VALUE_ADDRESS + 1] # Null
  /\ engine.context.stack[engine.context.frame + FunctionBuilder_argument_stack_offset(FunctionBuilder_new(2), 0) + 1] = Null

=============================================================================
